---- MODULE Spec2Model ----
(***************************************************************************)
(* NetMonitor: the capture -> enrichment -> aggregation -> persistence     *)
(* pipeline (packet_sniffer.py, monitor.py, process_mapper.py,             *)
(* dns_resolver.py, data_aggregator.py, database.py) as a state machine.   *)
(*                                                                         *)
(* Conventions                                                             *)
(*  - An IPv4 address is the tuple of its four octets; the source's        *)
(*    string prefix tests (startswith('192.168.')) are tests on the        *)
(*    leading octets, which is what they decide on a dotted quad.          *)
(*  - A packet's `timestamp` is its capture ordinal (1, 2, ...): the       *)
(*    capture clock read at packet_sniffer.py:74, strictly increasing in   *)
(*    capture order, which also identifies the packet.                     *)
(*  - Python's None is NoneStr for string-valued fields and NoPid for the  *)
(*    process id.                                                          *)
(***************************************************************************)
EXTENDS Integers, Sequences, FiniteSets, TLC

(***************************************************************************)
(* Bounds.  SNIFFER_QUEUE_SIZE and BATCH_INSERT_SIZE are the configured    *)
(* capacities (config.py:46 sets 1000, config.py:47 sets 10) scaled down.  *)
(***************************************************************************)
SNIFFER_QUEUE_SIZE == 2
BATCH_INSERT_SIZE == 2
MaxPackets == 3
MaxPushes == 5

MAX_RECENT_PACKETS == 2   \* config.py:38 sets 100
HISTORY_MAXLEN == 2       \* data_aggregator.py:35 sets 100
TicksPerSecond == 2       \* clock readings are in half seconds
MaxClock == 3
MaxRecords == 3

NoneStr == "None"
AbsentStr == "<absent>"
NoPid == 0

VARIABLES
    \* PacketSniffer (packet_sniffer.py)
    packet_queue,        \* self.packet_queue: queue.Queue(maxsize), oldest first
    sniffer_is_running,  \* PacketSniffer.is_running
    sniffer_alive,       \* the capture thread is inside scapy's sniff()
    sniffer_pc,          \* where _packet_handler stands: "idle", "full", "reput"
    handling,            \* packet_data of the handler call in progress
    captured,            \* packets handed to _packet_handler so far
    \* history of the CaptureQueue
    pushed,              \* timestamps given to the push, in arrival order
    discarded,           \* timestamps the push itself dropped (never queued)
    evictions,           \* <<timestamp evicted by the push, queue was full then>>
    \* DataAggregator (data_aggregator.py)
    agg,                 \* the aggregator's fields
    agg_lock,            \* self.lock: "free", or the thread holding it
    writer_pc,           \* where add_packet stands in its critical section
    writer_pkt,          \* the record add_packet was called with
    reset_pc,            \* where reset_stats stands in its critical section
    now,                 \* the clock, time.time(), in ticks
    snap,                \* the last read method call: its name, and whether
                         \* what it returned differs from its value on rest
    \* history of the aggregator
    rest,                \* agg as it stood when no call was last inside it
    records_since,       \* add_packet calls since construction or last reset
    bytes_since,         \* the sum of their packet sizes
    last_mutation,       \* "init", "add" or "reset": the last call that began
    reset_found,         \* the last reset_stats call found records, a rate,
                         \* a sample and download bytes to clear
    sampled,             \* the timestamps of the samples add_packet appended
                         \* since construction or the last reset, in order
    \* ProcessMapper (process_mapper.py) and DNSResolver (dns_resolver.py)
    mapper,              \* connection_cache and _refresh_counter
    dns_cache,           \* the lru_cache of resolve_ip, least recent first
    mapper_ret,          \* the last find_process_by_port call and its outcome
    dns_ret,             \* the last call of the resolver and its outcome
    \* NetworkDatabase (database.py)
    connections,         \* the committed rows of table connections, by id
    sqlite_sequence,     \* the largest id AUTOINCREMENT has handed out
    store_pc,            \* where insert_batch stands: "idle", "rows"
    store_call,          \* the data_list insert_batch was called with
    txn,                 \* rows written by the open transaction, uncommitted
    submitted,           \* the data_lists of the insert_batch calls so far
    store_ret,           \* the last query or cleanup call and what it returned
    \* NetworkMonitor (monitor.py)
    mon_is_running,      \* NetworkMonitor.is_running
    mon_pc,              \* where the main thread stands in start/stop/exit
    worker_pc,           \* where packet_processor_worker stands
    worker_pkt,          \* packet_data, then enriched_data, of its iteration
    batch_buffer,        \* self.batch_buffer
    \* history of the pipeline
    popped,              \* of each pop: the packet's timestamp, source and
                         \* size, and is_running at the pop
    raised,              \* timestamps whose loop iteration raised
    appended,            \* timestamps appended to batch_buffer, in order
    failed,              \* timestamps of the batches an insert_batch refused
    join_timed_out,      \* stop()'s join returned with the worker alive
    left_in_buffer,      \* timestamps in batch_buffer when stop() returned
    life                 \* the start() and stop() calls so far, the threads
                         \* they started, the timestamps the worker handed
                         \* to add_packet, and the worker thread of an
                         \* earlier start() that outlived its stop(), with
                         \* the packet it holds

snifferVars == <<packet_queue, sniffer_is_running, sniffer_alive, sniffer_pc,
                 handling, captured, pushed, discarded, evictions>>

aggVars == <<agg, agg_lock, writer_pc, writer_pkt, reset_pc, now, snap, rest,
             records_since, bytes_since, last_mutation, reset_found, sampled>>

mapperVars == <<mapper, dns_cache, mapper_ret, dns_ret>>

storeVars == <<connections, sqlite_sequence, store_pc, store_call, txn, submitted,
               store_ret>>

monVars == <<mon_is_running, mon_pc, worker_pc, worker_pkt, batch_buffer>>

histVars == <<popped, raised, appended, failed, join_timed_out, left_in_buffer,
              life>>

pipeVars == <<mapperVars, storeVars, monVars, histVars>>

vars == <<snifferVars, aggVars, pipeVars>>

----------------------------------------------------------------------------
(* Packets *)

NoPacket == [timestamp |-> 0]

\* packet_data as built at packet_sniffer.py:73-81.
MakePacket(n, t) ==
    [timestamp   |-> n,
     protocol    |-> t.protocol,
     source_ip   |-> t.source_ip,
     dest_ip     |-> t.dest_ip,
     source_port |-> t.source_port,
     dest_port   |-> t.dest_port,
     packet_size |-> t.packet_size]

Template(src, sport, dst, dport, size) ==
    [source_ip |-> src, source_port |-> sport, dest_ip |-> dst,
     dest_port |-> dport, packet_size |-> size, protocol |-> "TCP"]

LanHost == <<192, 168, 1, 10>>
LanPeer == <<192, 168, 1, 5>>
PublicHost == <<8, 8, 8, 8>>
Docker == <<172, 200, 1, 1>>
StreamHost == <<35, 186, 224, 25>>

\* What the interface carries while only the capture side is exercised.
WirePush ==
    { Template(LanHost, 50000, PublicHost, 443, 100),
      Template(PublicHost, 443, LanHost, 50000, 200),
      Template(LanHost, 50001, LanPeer, 22, 300) }

\* A hostname is the tuple of its characters; None is NoneHost.
NoneHost == <<"None">>
LocalNetworkName == <<"L", "o", "c", "a", "l", " ", "N", "e", "t", "w", "o", "r", "k">>   \* 'Local Network'
SpotifyEdgeName == <<"e", "d", "g", "e", ".", "s", "p", "o", "t", "i", "f", "y", ".", "c", "o", "m">>   \* 'edge.spotify.com'

\* The enriched record of NetworkMonitor._enrich_packet (monitor.py:99-130):
\* the packet's fields and app_name, pid, dest_hostname, category.
\* app_name and pid are AbsentStr when the keys were never set.
EnrichedRecord(pkt, app_name, pid, dest_hostname, category) ==
    [timestamp     |-> pkt.timestamp,
     protocol      |-> pkt.protocol,
     source_ip     |-> pkt.source_ip,
     dest_ip       |-> pkt.dest_ip,
     source_port   |-> pkt.source_port,
     dest_port     |-> pkt.dest_port,
     packet_size   |-> pkt.packet_size,
     app_name      |-> app_name,
     pid           |-> pid,
     dest_hostname |-> dest_hostname,
     category      |-> category]

Timestamps(q) == { q[i].timestamp : i \in 1..Len(q) }

LastN(s, n) ==
    IF Len(s) <= n THEN s ELSE SubSeq(s, Len(s) - n + 1, Len(s))

Front(s) == SubSeq(s, 1, Len(s) - 1)

----------------------------------------------------------------------------
(* Python containers *)

\* A dict is the sequence of its <<key, value>> items in insertion order.
DictKeys(d) == { d[i][1] : i \in 1..Len(d) }

DictGet(d, k, default) ==
    IF k \in DictKeys(d)
      THEN LET i == CHOOSE j \in 1..Len(d) : d[j][1] = k IN d[i][2]
      ELSE default

\* d[k] += delta on a defaultdict(int): a missing key is created at the end.
DictAdd(d, k, delta) ==
    IF k \in DictKeys(d)
      THEN [i \in 1..Len(d) |->
              IF d[i][1] = k THEN <<k, d[i][2] + delta>> ELSE d[i]]
      ELSE Append(d, <<k, delta>>)

RECURSIVE DictSum(_)
DictSum(d) == IF d = <<>> THEN 0 ELSE Head(d)[2] + DictSum(Tail(d))

\* A mutant of DequeAppend: the newest item falls out of a full deque.
DequeAppend_EvictsNewest(q, x, maxlen) ==
    IF Len(q) < maxlen THEN Append(q, x) ELSE Append(Front(q), x)

\* deque(maxlen=n).append: the oldest item falls out of a full deque.
DequeAppend(q, x, maxlen) ==
    IF Len(q) < maxlen THEN Append(q, x) ELSE Append(Tail(q), x)

\* sorted(d.items(), key=lambda x: x[1], reverse=True): descending by value,
\* stable (items of equal value keep their insertion order).
RECURSIVE SortedByValueDesc(_)
SortedByValueDesc(d) ==
    IF d = <<>> THEN <<>>
    ELSE LET h == Head(d)
             sortedTail == SortedByValueDesc(Tail(d))
             larger == SelectSeq(sortedTail, LAMBDA x : x[2] > h[2])
             others == SelectSeq(sortedTail, LAMBDA x : x[2] <= h[2])
         IN larger \o <<h>> \o others

\* s[:n] for n >= 0
Take(s, n) == IF Len(s) <= n THEN s ELSE SubSeq(s, 1, n)

\* s[-n:] for n >= 0; the index -0 is 0, so s[-0:] is all of s.
SliceFromMinus(s, n) ==
    IF n = 0 THEN s
    ELSE IF n >= Len(s) THEN s ELSE SubSeq(s, Len(s) - n + 1, Len(s))

----------------------------------------------------------------------------
(* Aggregator: DataAggregator (data_aggregator.py) *)

\* A rate is kept as the exact quotient num/den it was computed from.
Rate(n, d) == [num |-> n, den |-> d]
ZeroRate == Rate(0, 1)

\* DataAggregator.__init__ (data_aggregator.py:20-51), constructed at time t.
AggregatorAt(t) ==
    [recent_packets        |-> <<>>,
     app_bandwidth         |-> <<>>,
     app_packet_count      |-> <<>>,
     category_bandwidth    |-> <<>>,
     bandwidth_history     |-> <<>>,
     last_rate_calc        |-> t,
     bytes_since_last_calc |-> 0,
     current_rate          |-> ZeroRate,
     total_upload          |-> 0,
     total_download        |-> 0,
     total_packets         |-> 0,
     start_time            |-> t,
     local_ips             |-> {}]

\* packet_data.get('app_name', 'Unknown') and .get('category', 'Other')
AppNameOf(p) == IF p.app_name = AbsentStr THEN "Unknown" ELSE p.app_name
CategoryOf(p) == IF p.category = AbsentStr THEN "Other" ELSE p.category

\* data_aggregator.py:120: the prefixes '192.168.', '10.' and '172.'
HasLocalPrefix(ip) ==
    \/ ip[1] = 192 /\ ip[2] = 168
    \/ ip[1] = 10
    \/ ip[1] = 172

\* A mutant of is_outgoing: every source counts as local.
is_outgoing_AnySource(local_ips, ip) ==
    [result |-> TRUE, local_ips |-> local_ips \cup {ip}]

\* A mutant of is_outgoing: every source asked about is remembered as local.
is_outgoing_RemembersEverySource(local_ips, ip) ==
    IF ip \in local_ips THEN [result |-> TRUE, local_ips |-> local_ips]
    ELSE [result |-> HasLocalPrefix(ip), local_ips |-> local_ips \cup {ip}]

\* DataAggregator._is_outgoing (data_aggregator.py:105-124): the answer and
\* the local-IP cache afterwards.
is_outgoing(local_ips, ip) ==
    IF ip \in local_ips THEN [result |-> TRUE, local_ips |-> local_ips]
    ELSE IF HasLocalPrefix(ip)
      THEN [result |-> TRUE, local_ips |-> local_ips \cup {ip}]
      ELSE [result |-> FALSE, local_ips |-> local_ips]

\* data_aggregator.py:63-69
AggRecordApp(a, p) ==
    [a EXCEPT
       !.recent_packets = DequeAppend(@, p, MAX_RECENT_PACKETS),
       !.app_bandwidth = DictAdd(@, AppNameOf(p), p.packet_size),
       !.app_packet_count = DictAdd(@, AppNameOf(p), 1)]

\* data_aggregator.py:72-76
AggRecordCategory(a, p) ==
    [a EXCEPT
       !.category_bandwidth = DictAdd(@, CategoryOf(p), p.packet_size),
       !.total_packets = @ + 1]

\* A mutant of AggRecordDirection: the size is added to both totals.
AggRecordDirection_Both(a, p) ==
    LET o == is_outgoing(a.local_ips, p.source_ip) IN
    [a EXCEPT !.local_ips = o.local_ips,
              !.total_upload = @ + p.packet_size,
              !.total_download = @ + p.packet_size]

\* data_aggregator.py:79-83
AggRecordDirection(a, p) ==
    LET o == is_outgoing(a.local_ips, p.source_ip) IN
    IF o.result
      THEN [a EXCEPT !.local_ips = o.local_ips,
                     !.total_upload = @ + p.packet_size]
      ELSE [a EXCEPT !.local_ips = o.local_ips,
                     !.total_download = @ + p.packet_size]

\* A mutant of AggRecordRate: the accumulator is not reset after a sample.
AggRecordRate_KeepsAccumulator(a, p, t) ==
    LET b == [a EXCEPT !.bytes_since_last_calc = @ + p.packet_size]
        time_diff == t - b.last_rate_calc
        c == [b EXCEPT !.current_rate = Rate(b.bytes_since_last_calc, time_diff)]
        uptime == t - c.start_time
        sample == [timestamp     |-> t,
                   rate          |-> c.current_rate,
                   upload_rate   |-> Rate(c.total_upload, uptime),
                   download_rate |-> Rate(c.total_download, uptime)]
    IN
    IF time_diff < TicksPerSecond THEN [agg |-> b, raised |-> FALSE]
    ELSE IF uptime = 0 THEN [agg |-> c, raised |-> TRUE]
    ELSE [agg |-> [c EXCEPT
                     !.bandwidth_history = DequeAppend(@, sample, HISTORY_MAXLEN),
                     !.last_rate_calc = t],
          raised |-> FALSE]

\* data_aggregator.py:86-103 with the clock reading t of line 87.  The
\* division at line 97 raises ZeroDivisionError when t equals start_time:
\* current_rate (line 91) is then already assigned, the sample is not
\* appended and the accumulator is not reset.
AggRecordRate(a, p, t) ==
    LET b == [a EXCEPT !.bytes_since_last_calc = @ + p.packet_size]
        time_diff == t - b.last_rate_calc
        c == [b EXCEPT !.current_rate = Rate(b.bytes_since_last_calc, time_diff)]
        uptime == t - c.start_time
        sample == [timestamp     |-> t,
                   rate          |-> c.current_rate,
                   upload_rate   |-> Rate(c.total_upload, uptime),
                   download_rate |-> Rate(c.total_download, uptime)]
    IN
    IF time_diff < TicksPerSecond THEN [agg |-> b, raised |-> FALSE]
    ELSE IF uptime = 0 THEN [agg |-> c, raised |-> TRUE]
    ELSE [agg |-> [c EXCEPT
                     !.bandwidth_history = DequeAppend(@, sample, HISTORY_MAXLEN),
                     !.bytes_since_last_calc = 0,
                     !.last_rate_calc = t],
          raised |-> FALSE]

\* DataAggregator.add_packet (data_aggregator.py:53-103) as one critical
\* section.
add_packet(a, p, t) ==
    AggRecordRate(AggRecordDirection(AggRecordCategory(AggRecordApp(a, p), p), p), p, t)

\* A mutant of reset_stats_counters: current_rate is left as it was.
reset_stats_counters_KeepsRate(a, t) ==
    [a EXCEPT !.total_packets = 0,
              !.total_upload = 0,
              !.total_download = 0,
              !.bytes_since_last_calc = 0,
              !.start_time = t]

\* A mutant of reset_stats_collections: category_bandwidth is not cleared.
reset_stats_collections_KeepsCategories(a) ==
    [a EXCEPT !.recent_packets = <<>>,
              !.app_bandwidth = <<>>,
              !.app_packet_count = <<>>,
              !.bandwidth_history = <<>>]

\* DataAggregator.reset_stats, data_aggregator.py:225-229
reset_stats_collections(a) ==
    [a EXCEPT !.recent_packets = <<>>,
              !.app_bandwidth = <<>>,
              !.app_packet_count = <<>>,
              !.category_bandwidth = <<>>,
              !.bandwidth_history = <<>>]

\* DataAggregator.reset_stats, data_aggregator.py:230-235, with the clock
\* reading t of line 235.
reset_stats_counters(a, t) ==
    [a EXCEPT !.total_packets = 0,
              !.total_upload = 0,
              !.total_download = 0,
              !.bytes_since_last_calc = 0,
              !.current_rate = ZeroRate,
              !.start_time = t]

\* DataAggregator.get_recent_packets (data_aggregator.py:136-139)
get_recent_packets(a, limit) ==
    IF Len(a.recent_packets) > limit
      THEN SliceFromMinus(a.recent_packets, limit)
      ELSE a.recent_packets

\* DataAggregator.get_top_apps (data_aggregator.py:151-158)
get_top_apps(a, limit) == Take(SortedByValueDesc(a.app_bandwidth), limit)

\* DataAggregator.get_bandwidth_by_category (data_aggregator.py:167-172)
get_bandwidth_by_category(a) == SortedByValueDesc(a.category_bandwidth)

\* DataAggregator.get_bandwidth_history (data_aggregator.py:181-182)
get_bandwidth_history(a) == a.bandwidth_history

\* DataAggregator.get_current_stats (data_aggregator.py:191-203); uptime is
\* the clock reading t less start_time (packets_per_second, a quotient by
\* it, is left out).
get_current_stats(a, t) ==
    [total_packets   |-> a.total_packets,
     total_bandwidth |-> a.total_upload + a.total_download,
     total_upload    |-> a.total_upload,
     total_download  |-> a.total_download,
     current_rate    |-> a.current_rate,
     active_apps     |-> Len(a.app_bandwidth),
     uptime          |-> t - a.start_time]

\* DataAggregator.get_app_details (data_aggregator.py:215-220)
get_app_details(a, app_name) ==
    [app_name        |-> app_name,
     total_bandwidth |-> DictGet(a.app_bandwidth, app_name, 0),
     packet_count    |-> DictGet(a.app_packet_count, app_name, 0)]

----------------------------------------------------------------------------
(* ConnectionResolver: ProcessMapper (process_mapper.py) *)

REFRESH_INTERVAL == 2     \* process_mapper.py:25 sets 10

\* ProcessMapper.__init__ (process_mapper.py:21-25)
NewMapper == [connection_cache |-> <<>>, refresh_counter |-> 0]

\* None where an IP address is expected
NoneIp == <<>>

\* (None, None)
NoProcess == <<NoPid, NoneStr>>

\* d[k] = v on a dict: an existing key keeps its place.
DictPut(d, k, v) ==
    IF k \in DictKeys(d)
      THEN [i \in 1..Len(d) |-> IF d[i][1] = k THEN <<k, v>> ELSE d[i]]
      ELSE Append(d, <<k, v>>)

\* One connection of psutil.net_connections(): remote_ip is NoneIp when
\* the connection has no raddr, pid is NoPid when psutil reports none, name
\* is NoneStr when psutil.Process(pid) raises NoSuchProcess/AccessDenied.
OsConn(local_port, remote_ip, remote_port, pid, name) ==
    [local_port |-> local_port, remote_ip |-> remote_ip,
     remote_port |-> remote_port, pid |-> pid, name |-> name]

\* The loop of _refresh_connections (process_mapper.py:41-62) over the
\* connections still to visit.
RECURSIVE RefreshFrom(_, _)
RefreshFrom(conns, acc) ==
    IF conns = <<>> THEN acc
    ELSE LET c == Head(conns) IN
         IF /\ c.remote_ip # NoneIp
            /\ c.local_port # 0
            /\ c.pid # NoPid
            /\ c.name # NoneStr
           THEN RefreshFrom(Tail(conns),
                            DictPut(acc, <<c.local_port, c.remote_ip, c.remote_port>>,
                                    <<c.pid, c.name>>))
           ELSE RefreshFrom(Tail(conns), acc)

\* ProcessMapper._refresh_connections (process_mapper.py:27-68): os is what
\* psutil.net_connections does, a table or an exception.
refresh_connections(os) ==
    IF os.kind = "table" THEN RefreshFrom(os.table, <<>>) ELSE <<>>

\* ProcessMapper._find_process_with_lsof (process_mapper.py:107-148): lsof
\* is what subprocess.run does.  TimeoutExpired, SubprocessError and
\* ValueError are caught (line 145); the OSError of a missing or
\* non-executable lsof is not.
find_process_with_lsof(lsof) ==
    CASE lsof.kind = "output" ->
           [result |-> IF lsof.pid # NoPid /\ lsof.name # NoneStr
                         THEN <<lsof.pid, lsof.name>> ELSE NoProcess,
            raised |-> FALSE]
      [] lsof.kind = "oserror" -> [result |-> NoProcess, raised |-> TRUE]
      [] OTHER -> [result |-> NoProcess, raised |-> FALSE]

\* A mutant of find_process_by_port: the refresh of an empty cache also
\* restarts the count.
find_process_by_port_EmptyRestartsCount(m, local_port, remote_ip, remote_port, os, lsof) ==
    LET counter == m.refresh_counter + 1
        m1 == IF counter >= REFRESH_INTERVAL
                THEN [connection_cache |-> refresh_connections(os),
                      refresh_counter |-> 0]
                ELSE [m EXCEPT !.refresh_counter = counter]
        m2 == IF m1.connection_cache = <<>>
                THEN [connection_cache |-> refresh_connections(os),
                      refresh_counter |-> 0]
                ELSE m1
        key == <<local_port, remote_ip, remote_port>>
        byPort == SelectSeq(m2.connection_cache,
                            LAMBDA item : item[1][1] = local_port)
        l == find_process_with_lsof(lsof)
        \* _refresh_connections ran in this call (line 85 or line 90)
        refreshed == counter >= REFRESH_INTERVAL \/ m1.connection_cache = <<>>
    IN
    IF remote_port # 0 /\ key \in DictKeys(m2.connection_cache)
      THEN [mapper |-> m2, raised |-> FALSE, refreshed |-> refreshed,
            lsof_called |-> FALSE,
            result |-> DictGet(m2.connection_cache, key, NoProcess)]
    ELSE IF byPort # <<>>
      THEN [mapper |-> m2, raised |-> FALSE, refreshed |-> refreshed,
            lsof_called |-> FALSE, result |-> Head(byPort)[2]]
    ELSE [mapper |-> m2, raised |-> l.raised, refreshed |-> refreshed,
          lsof_called |-> TRUE, result |-> l.result]

\* ProcessMapper.find_process_by_port (process_mapper.py:70-105).  The
\* remote address of a captured packet is never empty; a port is falsy when
\* it is 0.  Both refreshes of one call see the same connection table.
find_process_by_port(m, local_port, remote_ip, remote_port, os, lsof) ==
    LET counter == m.refresh_counter + 1
        m1 == IF counter >= REFRESH_INTERVAL
                THEN [connection_cache |-> refresh_connections(os),
                      refresh_counter |-> 0]
                ELSE [m EXCEPT !.refresh_counter = counter]
        m2 == IF m1.connection_cache = <<>>
                THEN [m1 EXCEPT !.connection_cache = refresh_connections(os)]
                ELSE m1
        key == <<local_port, remote_ip, remote_port>>
        byPort == SelectSeq(m2.connection_cache,
                            LAMBDA item : item[1][1] = local_port)
        l == find_process_with_lsof(lsof)
        \* _refresh_connections ran in this call (line 85 or line 90)
        refreshed == counter >= REFRESH_INTERVAL \/ m1.connection_cache = <<>>
    IN
    IF remote_port # 0 /\ key \in DictKeys(m2.connection_cache)
      THEN [mapper |-> m2, raised |-> FALSE, refreshed |-> refreshed,
            lsof_called |-> FALSE,
            result |-> DictGet(m2.connection_cache, key, NoProcess)]
    ELSE IF byPort # <<>>
      THEN [mapper |-> m2, raised |-> FALSE, refreshed |-> refreshed,
            lsof_called |-> FALSE, result |-> Head(byPort)[2]]
    ELSE [mapper |-> m2, raised |-> l.raised, refreshed |-> refreshed,
          lsof_called |-> TRUE, result |-> l.result]

\* mapper_ret before any call of the mapper.
NoMapperCall ==
    [op |-> "none", local_port |-> 0, remote_ip |-> NoneIp, remote_port |-> 0,
     os |-> [kind |-> "none", table |-> <<>>],
     lsof |-> [kind |-> "none", pid |-> NoPid, name |-> NoneStr],
     result |-> NoProcess, raised |-> FALSE, refreshed |-> FALSE,
     lsof_called |-> FALSE, before |-> NewMapper, kth |-> FALSE,
     calls_since |-> 0]

\* ProcessMapper.clear_cache (process_mapper.py:220-224)
clear_cache(m) == [connection_cache |-> <<>>, refresh_counter |-> 0]

\* process_mapper.py:182-204
name_mappings ==
    << <<"Google Chrome", "Chrome">>,
       <<"Google Chrome Helper", "Chrome">>,
       <<"Safari", "Safari">>,
       <<"Safari Networking", "Safari">>,
       <<"firefox", "Firefox">>,
       <<"Spotify", "Spotify">>,
       <<"Spotify Helper", "Spotify">>,
       <<"Code", "VS Code">>,
       <<"Code Helper", "VS Code">>,
       <<"Python", "Python">>,
       <<"python3", "Python">>,
       <<"node", "Node.js">>,
       <<"Slack", "Slack">>,
       <<"Slack Helper", "Slack">>,
       <<"Discord", "Discord">>,
       <<"Discord Helper", "Discord">>,
       <<"Zoom", "Zoom">>,
       <<"zoom.us", "Zoom">>,
       <<"Microsoft Teams", "Teams">>,
       <<"Dropbox", "Dropbox">>,
       <<"OneDrive", "OneDrive">> >>

\* ProcessMapper.get_app_name_from_process_name (process_mapper.py:167-218)
\* for the process names of this model: keys of name_mappings, decided by
\* the exact match of line 207, and names that contain no key and none of
\* the suffixes of line 216, which are returned as they are.
get_app_name_from_process_name(process_name) ==
    IF process_name = NoneStr THEN "Unknown"
    ELSE DictGet(name_mappings, process_name, process_name)

----------------------------------------------------------------------------
(* NameResolver: DNSResolver (dns_resolver.py) *)

MAX_CACHED_DNS == 2       \* config.py:39 sets 1000

\* config.py:56-94, in the order of the dict; a keyword is the tuple of its
\* characters.
CATEGORY_KEYWORDS ==
    << <<"Streaming",
          << <<"y", "o", "u", "t", "u", "b", "e">>,   \* youtube
             <<"y", "o", "u", "t", "u", ".", "b", "e">>,   \* youtu.be
             <<"n", "e", "t", "f", "l", "i", "x">>,   \* netflix
             <<"h", "u", "l", "u">>,   \* hulu
             <<"s", "p", "o", "t", "i", "f", "y">>,   \* spotify
             <<"t", "w", "i", "t", "c", "h">>,   \* twitch
             <<"v", "i", "m", "e", "o">>,   \* vimeo
             <<"d", "a", "i", "l", "y", "m", "o", "t", "i", "o", "n">>,   \* dailymotion
             <<"s", "o", "u", "n", "d", "c", "l", "o", "u", "d">>,   \* soundcloud
             <<"t", "i", "d", "a", "l">>,   \* tidal
             <<"p", "a", "n", "d", "o", "r", "a">>,   \* pandora
             <<"d", "i", "s", "n", "e", "y", "p", "l", "u", "s">>,   \* disneyplus
             <<"h", "b", "o", "m", "a", "x">>,   \* hbomax
             <<"p", "r", "i", "m", "e", "v", "i", "d", "e", "o">>,   \* primevideo
             <<"a", "p", "p", "l", "e", "t", "v">> >> >>,   \* appletv
       <<"Social Media",
          << <<"f", "a", "c", "e", "b", "o", "o", "k">>,   \* facebook
             <<"f", "b", ".", "c", "o", "m">>,   \* fb.com
             <<"i", "n", "s", "t", "a", "g", "r", "a", "m">>,   \* instagram
             <<"t", "w", "i", "t", "t", "e", "r">>,   \* twitter
             <<"t", "i", "k", "t", "o", "k">>,   \* tiktok
             <<"l", "i", "n", "k", "e", "d", "i", "n">>,   \* linkedin
             <<"r", "e", "d", "d", "i", "t">>,   \* reddit
             <<"s", "n", "a", "p", "c", "h", "a", "t">>,   \* snapchat
             <<"p", "i", "n", "t", "e", "r", "e", "s", "t">>,   \* pinterest
             <<"w", "h", "a", "t", "s", "a", "p", "p">>,   \* whatsapp
             <<"t", "e", "l", "e", "g", "r", "a", "m">>,   \* telegram
             <<"d", "i", "s", "c", "o", "r", "d">>,   \* discord
             <<"s", "l", "a", "c", "k">> >> >>,   \* slack
       <<"Development",
          << <<"g", "i", "t", "h", "u", "b">>,   \* github
             <<"g", "i", "t", "l", "a", "b">>,   \* gitlab
             <<"b", "i", "t", "b", "u", "c", "k", "e", "t">>,   \* bitbucket
             <<"s", "t", "a", "c", "k", "o", "v", "e", "r", "f", "l", "o", "w">>,   \* stackoverflow
             <<"s", "t", "a", "c", "k", "e", "x", "c", "h", "a", "n", "g", "e">>,   \* stackexchange
             <<"n", "p", "m", "j", "s">>,   \* npmjs
             <<"p", "y", "p", "i">>,   \* pypi
             <<"d", "o", "c", "k", "e", "r">>,   \* docker
             <<"k", "u", "b", "e", "r", "n", "e", "t", "e", "s">>,   \* kubernetes
             <<"j", "e", "n", "k", "i", "n", "s">> >> >>,   \* jenkins
       <<"Cloud Services",
          << <<"a", "m", "a", "z", "o", "n", "a", "w", "s">>,   \* amazonaws
             <<"a", "w", "s">>,   \* aws
             <<"a", "z", "u", "r", "e">>,   \* azure
             <<"g", "o", "o", "g", "l", "e", "c", "l", "o", "u", "d">>,   \* googlecloud
             <<"g", "c", "p">>,   \* gcp
             <<"c", "l", "o", "u", "d", "f", "l", "a", "r", "e">>,   \* cloudflare
             <<"d", "i", "g", "i", "t", "a", "l", "o", "c", "e", "a", "n">>,   \* digitalocean
             <<"h", "e", "r", "o", "k", "u">>,   \* heroku
             <<"v", "e", "r", "c", "e", "l">> >> >>,   \* vercel
       <<"Shopping",
          << <<"a", "m", "a", "z", "o", "n">>,   \* amazon
             <<"e", "b", "a", "y">>,   \* ebay
             <<"s", "h", "o", "p", "i", "f", "y">>,   \* shopify
             <<"e", "t", "s", "y">>,   \* etsy
             <<"w", "a", "l", "m", "a", "r", "t">>,   \* walmart
             <<"a", "l", "i", "b", "a", "b", "a">>,   \* alibaba
             <<"a", "l", "i", "e", "x", "p", "r", "e", "s", "s">>,   \* aliexpress
             <<"t", "a", "r", "g", "e", "t">> >> >>,   \* target
       <<"Communication",
          << <<"z", "o", "o", "m">>,   \* zoom
             <<"t", "e", "a", "m", "s">>,   \* teams
             <<"m", "e", "e", "t", ".", "g", "o", "o", "g", "l", "e">>,   \* meet.google
             <<"w", "e", "b", "e", "x">>,   \* webex
             <<"s", "k", "y", "p", "e">>,   \* skype
             <<"g", "o", "t", "o", "m", "e", "e", "t", "i", "n", "g">>,   \* gotomeeting
             <<"b", "l", "u", "e", "j", "e", "a", "n", "s">> >> >>,   \* bluejeans
       <<"Gaming",
          << <<"s", "t", "e", "a", "m">>,   \* steam
             <<"e", "p", "i", "c", "g", "a", "m", "e", "s">>,   \* epicgames
             <<"o", "r", "i", "g", "i", "n">>,   \* origin
             <<"b", "a", "t", "t", "l", "e", ".", "n", "e", "t">>,   \* battle.net
             <<"p", "l", "a", "y", "s", "t", "a", "t", "i", "o", "n">>,   \* playstation
             <<"x", "b", "o", "x">>,   \* xbox
             <<"n", "i", "n", "t", "e", "n", "d", "o">>,   \* nintendo
             <<"t", "w", "i", "t", "c", "h">> >> >>,   \* twitch
       <<"News",
          << <<"n", "y", "t", "i", "m", "e", "s">>,   \* nytimes
             <<"c", "n", "n">>,   \* cnn
             <<"b", "b", "c">>,   \* bbc
             <<"r", "e", "u", "t", "e", "r", "s">>,   \* reuters
             <<"b", "l", "o", "o", "m", "b", "e", "r", "g">>,   \* bloomberg
             <<"t", "h", "e", "g", "u", "a", "r", "d", "i", "a", "n">>,   \* theguardian
             <<"w", "s", "j">>,   \* wsj
             <<"w", "a", "s", "h", "i", "n", "g", "t", "o", "n", "p", "o", "s", "t">> >> >>,   \* washingtonpost
       <<"Apple Services",
          << <<"a", "p", "p", "l", "e", ".", "c", "o", "m">>,   \* apple.com
             <<"i", "c", "l", "o", "u", "d">>,   \* icloud
             <<"i", "t", "u", "n", "e", "s">>,   \* itunes
             <<"a", "p", "p", "s", "t", "o", "r", "e">>,   \* appstore
             <<"a", "p", "p", "l", "e", "-", "d", "n", "s">> >> >> >>   \* apple-dns

UpperCase == <<"A", "B", "C", "D", "E", "F", "G", "H", "I", "J", "K", "L", "M", "N", "O", "P", "Q", "R", "S", "T", "U", "V", "W", "X", "Y", "Z">>
LowerCase == <<"a", "b", "c", "d", "e", "f", "g", "h", "i", "j", "k", "l", "m", "n", "o", "p", "q", "r", "s", "t", "u", "v", "w", "x", "y", "z">>

\* str.lower() on the characters of a hostname
Lower(s) ==
    [i \in 1..Len(s) |->
       IF \E j \in 1..26 : UpperCase[j] = s[i]
         THEN LowerCase[CHOOSE j \in 1..26 : UpperCase[j] = s[i]]
         ELSE s[i]]

\* keyword in hostname
IsSubstring(k, s) ==
    \E i \in 0..(Len(s) - Len(k)) : \A j \in 1..Len(k) : s[i + j] = k[j]

\* A mutant of categorize_domain: the last category of the table with a
\* matching keyword wins.
categorize_domain_LastCategory(hostname) ==
    IF hostname = NoneHost \/ hostname = <<>> THEN "Other"
    ELSE LET h == Lower(hostname)
             hits == SelectSeq(CATEGORY_KEYWORDS,
                       LAMBDA c : \E i \in 1..Len(c[2]) : IsSubstring(c[2][i], h))
         IN IF hits = <<>> THEN "Other" ELSE hits[Len(hits)][1]

\* DNSResolver.categorize_domain (dns_resolver.py:49-73)
categorize_domain(hostname) ==
    IF hostname = NoneHost \/ hostname = <<>> THEN "Other"
    ELSE LET h == Lower(hostname)
             hits == SelectSeq(CATEGORY_KEYWORDS,
                       LAMBDA c : \E i \in 1..Len(c[2]) : IsSubstring(c[2][i], h))
         IN IF hits = <<>> THEN "Other" ELSE Head(hits)[1]

\* A mutant of resolve_ip: only the named socket errors are caught, any
\* other exception of the lookup leaves the method.
resolve_ip_OtherPropagates(cache, ip, lookup) ==
    LET hit == SelectSeq(cache, LAMBDA e : e[1] = ip)
        others == SelectSeq(cache, LAMBDA e : e[1] # ip)
        answer == IF lookup.kind = "host" THEN lookup.name ELSE NoneHost
        grown == Append(cache, <<ip, answer>>)
    IN
    IF hit # <<>>
      THEN [result |-> hit[1][2], cache |-> Append(others, hit[1]),
            looked_up |-> FALSE, raised |-> FALSE]
    ELSE IF lookup.kind = "error"
      THEN [result |-> NoneHost, cache |-> cache, looked_up |-> TRUE,
            raised |-> TRUE]
      ELSE [result |-> answer,
            cache |-> IF Len(grown) > MAX_CACHED_DNS THEN Tail(grown) ELSE grown,
            looked_up |-> TRUE, raised |-> FALSE]

\* A mutant of resolve_ip: a failed lookup is not cached.
resolve_ip_ForgetsNone(cache, ip, lookup) ==
    LET hit == SelectSeq(cache, LAMBDA e : e[1] = ip)
        others == SelectSeq(cache, LAMBDA e : e[1] # ip)
        answer == IF lookup.kind = "host" THEN lookup.name ELSE NoneHost
        grown == Append(cache, <<ip, answer>>)
    IN
    IF hit # <<>>
      THEN [result |-> hit[1][2], cache |-> Append(others, hit[1]),
            looked_up |-> FALSE, raised |-> FALSE]
    ELSE IF answer = NoneHost
      THEN [result |-> answer, cache |-> cache, looked_up |-> TRUE,
            raised |-> FALSE]
      ELSE [result |-> answer,
            cache |-> IF Len(grown) > MAX_CACHED_DNS THEN Tail(grown) ELSE grown,
            looked_up |-> TRUE, raised |-> FALSE]

\* A mutant of resolve_ip: a hit does not renew the entry, the cache evicts
\* in insertion order.
resolve_ip_EvictsOldestInserted(cache, ip, lookup) ==
    LET hit == SelectSeq(cache, LAMBDA e : e[1] = ip)
        answer == IF lookup.kind = "host" THEN lookup.name ELSE NoneHost
        grown == Append(cache, <<ip, answer>>)
    IN
    IF hit # <<>>
      THEN [result |-> hit[1][2], cache |-> cache,
            looked_up |-> FALSE, raised |-> FALSE]
      ELSE [result |-> answer,
            cache |-> IF Len(grown) > MAX_CACHED_DNS THEN Tail(grown) ELSE grown,
            looked_up |-> TRUE, raised |-> FALSE]

\* A mutant of resolve_ip: a cached None is looked up again.
resolve_ip_RetriesNone(cache, ip, lookup) ==
    LET hit == SelectSeq(cache, LAMBDA e : e[1] = ip)
        others == SelectSeq(cache, LAMBDA e : e[1] # ip)
        answer == IF lookup.kind = "host" THEN lookup.name ELSE NoneHost
        grown == Append(others, <<ip, answer>>)
    IN
    IF hit # <<>> /\ hit[1][2] # NoneHost
      THEN [result |-> hit[1][2], cache |-> Append(others, hit[1]),
            looked_up |-> FALSE, raised |-> FALSE]
      ELSE [result |-> answer,
            cache |-> IF Len(grown) > MAX_CACHED_DNS THEN Tail(grown) ELSE grown,
            looked_up |-> TRUE, raised |-> FALSE]

\* functools.lru_cache(maxsize) around resolve_ip (dns_resolver.py:23-47):
\* the cache is the sequence of <<ip, result>>, least recently used first.
\* lookup is what socket.gethostbyaddr does; every exception gives None
\* (lines 42-47), and None is cached like a hostname.  Nothing is raised.
resolve_ip(cache, ip, lookup) ==
    LET hit == SelectSeq(cache, LAMBDA e : e[1] = ip)
        others == SelectSeq(cache, LAMBDA e : e[1] # ip)
        answer == IF lookup.kind = "host" THEN lookup.name ELSE NoneHost
        grown == Append(cache, <<ip, answer>>)
    IN
    IF hit # <<>>
      THEN [result |-> hit[1][2], cache |-> Append(others, hit[1]),
            looked_up |-> FALSE, raised |-> FALSE]
      ELSE [result |-> answer,
            cache |-> IF Len(grown) > MAX_CACHED_DNS THEN Tail(grown) ELSE grown,
            looked_up |-> TRUE, raised |-> FALSE]

\* DNSResolver.resolve_and_categorize (dns_resolver.py:75-87): an exception
\* of resolve_ip would leave it at line 85.
resolve_and_categorize(cache, ip, lookup) ==
    LET r == resolve_ip(cache, ip, lookup) IN
    [hostname |-> r.result, category |-> categorize_domain(r.result),
     cache |-> r.cache, looked_up |-> r.looked_up, raised |-> r.raised]

\* DNSResolver.clear_cache (dns_resolver.py:104-106)
dns_clear_cache(cache) == <<>>

\* DNSResolver.get_cache_info (dns_resolver.py:89-102): currsize and maxsize
get_cache_info(cache) == [size |-> Len(cache), maxsize |-> MAX_CACHED_DNS]

\* dns_ret before any call of the resolver.  `uses` lists the IPs resolved
\* since the cache was last empty by construction or clear_cache, each
\* once, in the order of their last use.
NoDnsCall ==
    [op |-> "none", ip |-> NoneIp, kind |-> "none", arg |-> <<>>,
     hostname |-> NoneHost, category |-> "Other", looked_up |-> FALSE,
     raised |-> FALSE, calls |-> 0, before |-> <<>>, uses |-> <<>>,
     prev_op |-> "none", prev_ip |-> NoneIp, prev_hostname |-> NoneHost]

\* DNSResolver.is_local_ip (dns_resolver.py:108-151) on an IPv4 address:
\* '127.', '10.', '192.168.', '172.16.' to '172.31.' and '169.254.'
is_local_ip(ip) ==
    \/ ip[1] = 127
    \/ ip[1] = 10
    \/ ip[1] = 192 /\ ip[2] = 168
    \/ ip[1] = 172 /\ ip[2] \in 16..31
    \/ ip[1] = 169 /\ ip[2] = 254

----------------------------------------------------------------------------
(* Store: NetworkDatabase (database.py) *)

\* One tuple of `records` (database.py:121-136): the values of the dict,
\* with the defaults of data.get for the keys that may be missing.
StoreRecord(data) ==
    [timestamp     |-> data.timestamp,
     app_name      |-> AppNameOf(data),
     pid           |-> data.pid,
     source_ip     |-> data.source_ip,
     dest_ip       |-> data.dest_ip,
     dest_hostname |-> data.dest_hostname,
     category      |-> CategoryOf(data),
     protocol      |-> data.protocol,
     source_port   |-> data.source_port,
     dest_port     |-> data.dest_port,
     packet_size   |-> data.packet_size]

\* The NOT NULL columns of the schema (database.py:39-50).
SatisfiesNotNull(r) ==
    /\ r.source_ip # NoneIp
    /\ r.dest_ip # NoneIp
    /\ r.protocol # NoneStr

\* The row INSERT makes of a tuple: AUTOINCREMENT gives it the id after
\* the largest one handed out.
StoreRow(r, id) == [id |-> id, data |-> r]

\* Ids taken from the rows still in the table, as a plain rowid would be.
RowsFrom_ReusesIds(data_list, last_id) ==
    LET top == IF connections = <<>> THEN 0
               ELSE connections[Len(connections)].id
    IN IF data_list = <<>> THEN <<>>
       ELSE [i \in 1..Len(data_list) |->
               StoreRow(StoreRecord(data_list[i]), top + i)]

RECURSIVE RowsFrom(_, _)
RowsFrom(data_list, last_id) ==
    IF data_list = <<>> THEN <<>>
    ELSE <<StoreRow(StoreRecord(Head(data_list)), last_id + 1)>>
           \o RowsFrom(Tail(data_list), last_id + 1)

\* NetworkDatabase.insert_batch (database.py:107-147) as one call: the
\* rows it commits, or none when executemany raises on a NULL in a NOT NULL
\* column or when the database refuses the write (available = FALSE:
\* sqlite3.OperationalError, the file is locked by another process or the
\* disk is full).
insert_batch(rows, last_id, data_list, available) ==
    IF data_list = <<>>
      THEN [connections |-> rows, sqlite_sequence |-> last_id, raised |-> FALSE]
    ELSE IF available /\ \A i \in 1..Len(data_list) :
                            SatisfiesNotNull(StoreRecord(data_list[i]))
      THEN [connections |-> rows \o RowsFrom(data_list, last_id),
            sqlite_sequence |-> last_id + Len(data_list),
            raised |-> FALSE]
      ELSE [connections |-> rows, sqlite_sequence |-> last_id, raised |-> TRUE]

StoredStamps == { connections[i].data.timestamp : i \in 1..Len(connections) }

\* NetworkDatabase.get_connection_count (database.py:270-285):
\* SELECT COUNT(*) FROM connections.
get_connection_count(rows) == Len(rows)

RECURSIVE SumPacketSize(_)
SumPacketSize(rows) ==
    IF rows = <<>> THEN 0
    ELSE Head(rows).data.packet_size + SumPacketSize(Tail(rows))

\* NetworkDatabase.get_total_bandwidth (database.py:226-241):
\* SELECT SUM(packet_size), which is NULL on an empty table; `result or 0`.
get_total_bandwidth(rows) == IF rows = <<>> THEN 0 ELSE SumPacketSize(rows)

SecondsPerDay == 86400   \* database.py:294, 24 * 60 * 60

\* A mutant of cleanup_old_data: DELETE ... WHERE timestamp <= ?
cleanup_old_data_AtOrBefore(rows, clock, days) ==
    LET cutoff_time == clock - days * SecondsPerDay * TicksPerSecond
        kept == SelectSeq(rows, LAMBDA r : ~(r.data.timestamp <= cutoff_time))
    IN [connections |-> kept, deleted |-> Len(rows) - Len(kept)]

\* NetworkDatabase.cleanup_old_data (database.py:287-309): `clock` is the
\* reading of datetime.now().timestamp() at line 294, in ticks like the
\* timestamps; DELETE ... WHERE timestamp < cutoff_time, and the rowcount.
cleanup_old_data(rows, clock, days) ==
    LET cutoff_time == clock - days * SecondsPerDay * TicksPerSecond
        kept == SelectSeq(rows, LAMBDA r : ~(r.data.timestamp < cutoff_time))
    IN [connections |-> kept, deleted |-> Len(rows) - Len(kept)]

\* store_ret before any query: no call.
NoStoreCall ==
    [op |-> "none", days |-> 0, value |-> 0, raised |-> FALSE,
     before |-> <<>>, after |-> <<>>, at |-> 0]

----------------------------------------------------------------------------
(* Orchestrator: NetworkMonitor (monitor.py) *)

\* NetworkMonitor._enrich_packet (monitor.py:89-130): the enriched record,
\* the mapper and the resolver cache afterwards, or the exception of the
\* mapper.  A record whose source port is 0 gets no app_name and no pid.
enrich_packet(pkt, m, cache, os, lsof, lookup) ==
    LET useMapper == pkt.source_port # 0
        f == find_process_by_port(m, pkt.source_port, pkt.dest_ip,
                                  pkt.dest_port, os, lsof)
        found == f.result[2] # NoneStr
        app_name == IF ~useMapper THEN AbsentStr
                    ELSE IF found THEN get_app_name_from_process_name(f.result[2])
                    ELSE "Unknown"
        pid == IF useMapper /\ found THEN f.result[1] ELSE NoPid
        local == is_local_ip(pkt.dest_ip)
        r == resolve_and_categorize(cache, pkt.dest_ip, lookup)
    IN
    IF useMapper /\ f.raised
      THEN [raised |-> TRUE, mapper |-> f.mapper, dns_cache |-> cache,
            resolver_calls |-> 0, looked_up |-> FALSE, record |-> pkt]
      ELSE [raised |-> FALSE,
            resolver_calls |-> IF local THEN 0 ELSE 1,
            looked_up |-> ~local /\ r.looked_up,
            mapper |-> IF useMapper THEN f.mapper ELSE m,
            dns_cache |-> IF local THEN cache ELSE r.cache,
            record |-> EnrichedRecord(pkt, app_name, pid,
                         IF local THEN LocalNetworkName ELSE r.hostname,
                         IF local THEN "Local" ELSE r.category)]

----------------------------------------------------------------------------
(* CaptureQueue: PacketSniffer._packet_handler and get_packet *)

snifferOthers == <<aggVars, pipeVars>>

\* The handler returns; scapy then evaluates stop_filter
\* (packet_sniffer.py:119) and leaves sniff() once is_running is cleared.
SnifferReturn ==
    /\ sniffer_pc' = "idle"
    /\ handling' = NoPacket
    /\ sniffer_alive' = sniffer_is_running

\* packet_sniffer.py:89 put_nowait; queue.Full is raised when the queue
\* holds maxsize items.
SnifferPut(limit, wire) ==
    /\ sniffer_alive
    /\ sniffer_pc = "idle"
    /\ captured < limit
    /\ \E t \in wire :
         LET pkt == MakePacket(captured + 1, t) IN
         /\ captured' = captured + 1
         /\ pushed' = Append(pushed, pkt.timestamp)
         /\ IF Len(packet_queue) < SNIFFER_QUEUE_SIZE
              THEN /\ packet_queue' = Append(packet_queue, pkt)
                   /\ SnifferReturn
              ELSE /\ packet_queue' = packet_queue
                   /\ sniffer_pc' = "full"
                   /\ handling' = pkt
                   /\ sniffer_alive' = sniffer_alive
    /\ UNCHANGED <<sniffer_is_running, discarded, evictions>>
    /\ UNCHANGED snifferOthers

\* A mutant of SnifferGet: the newest queued packet is removed instead of
\* the oldest.
SnifferGet_DropsNewest ==
    /\ sniffer_pc = "full"
    /\ IF packet_queue = <<>>
         THEN /\ discarded' = discarded \cup {handling.timestamp}
              /\ SnifferReturn
              /\ UNCHANGED <<packet_queue, evictions>>
         ELSE /\ packet_queue' = Front(packet_queue)
              /\ evictions' = evictions \cup
                   {<<packet_queue[Len(packet_queue)].timestamp,
                      Len(packet_queue) = SNIFFER_QUEUE_SIZE>>}
              /\ sniffer_pc' = "reput"
              /\ UNCHANGED <<handling, sniffer_alive, discarded>>
    /\ UNCHANGED <<sniffer_is_running, captured, pushed>>
    /\ UNCHANGED snifferOthers

\* packet_sniffer.py:90-93: on queue.Full, get_nowait removes the oldest
\* packet; queue.Empty (line 95) is passed over and the new packet is gone.
SnifferGet ==
    /\ sniffer_pc = "full"
    /\ IF packet_queue = <<>>
         THEN /\ discarded' = discarded \cup {handling.timestamp}
              /\ SnifferReturn
              /\ UNCHANGED <<packet_queue, evictions>>
         ELSE /\ packet_queue' = Tail(packet_queue)
              /\ evictions' = evictions \cup
                   {<<Head(packet_queue).timestamp,
                      Len(packet_queue) = SNIFFER_QUEUE_SIZE>>}
              /\ sniffer_pc' = "reput"
              /\ UNCHANGED <<handling, sniffer_alive, discarded>>
    /\ UNCHANGED <<sniffer_is_running, captured, pushed>>
    /\ UNCHANGED snifferOthers

\* packet_sniffer.py:94: the second put_nowait.  A queue.Full here is not
\* caught by line 95; it reaches line 98 and the packet is gone.
SnifferReput ==
    /\ sniffer_pc = "reput"
    /\ IF Len(packet_queue) < SNIFFER_QUEUE_SIZE
         THEN /\ packet_queue' = Append(packet_queue, handling)
              /\ discarded' = discarded
         ELSE /\ packet_queue' = packet_queue
              /\ discarded' = discarded \cup {handling.timestamp}
    /\ SnifferReturn
    /\ UNCHANGED <<sniffer_is_running, captured, pushed, evictions>>
    /\ UNCHANGED snifferOthers

----------------------------------------------------------------------------
(* The aggregator's callers: add_packet, reset_stats and the read methods,
   each inside `with self.lock` *)

NoSnap == [method |-> "none", torn |-> FALSE, packets |-> 0]

\* The sample timestamps once add_packet has taken the aggregator from a
\* to b at clock reading t: one more when it appended a sample
\* (data_aggregator.py:94-99).
SampledAfter(a, b, t) ==
    IF b.bandwidth_history # a.bandwidth_history THEN Append(sampled, t)
                                                   ELSE sampled

\* get_aggregator() (data_aggregator.py:274-284) constructs the aggregator.
AggInit ==
    /\ agg = AggregatorAt(0)
    /\ agg_lock = "free"
    /\ writer_pc = "idle"
    /\ writer_pkt = NoPacket
    /\ reset_pc = "idle"
    /\ now = 0
    /\ snap = NoSnap
    /\ rest = AggregatorAt(0)
    /\ records_since = 0
    /\ bytes_since = 0
    /\ last_mutation = "init"
    /\ reset_found = FALSE
    /\ sampled = <<>>

\* No call of start() or stop() yet, and no thread (monitor.py:31-33).
NoLife ==
    [calls    |-> 0,
     call     |-> [op |-> "none", was_running |-> FALSE],
     returned |-> {},
     sniffers |-> 0,
     workers  |-> 0,
     outlived |-> 0,
     holding  |-> [pc |-> "none", pkt |-> NoPacket],
     handed   |-> {}]

\* NetworkMonitor.__init__ (monitor.py:29-45) with the components it
\* constructs: the store (database.py:19-28), the mapper, the resolver.
MonitorInit ==
    /\ mapper = NewMapper
    /\ dns_cache = <<>>
    /\ mapper_ret = NoMapperCall
    /\ dns_ret = NoDnsCall
    /\ connections = <<>>
    /\ sqlite_sequence = 0
    /\ store_pc = "idle"
    /\ store_call = <<>>
    /\ txn = <<>>
    /\ submitted = <<>>
    /\ store_ret = NoStoreCall
    /\ mon_is_running = FALSE
    /\ mon_pc = "new"
    /\ worker_pc = "none"
    /\ worker_pkt = NoPacket
    /\ batch_buffer = <<>>
    /\ popped = <<>>
    /\ raised = {}
    /\ appended = <<>>
    /\ failed = {}
    /\ join_timed_out = FALSE
    /\ left_in_buffer = {}
    /\ life = NoLife

----------------------------------------------------------------------------
(* The capture side alone: a started sniffer whose queue nobody reads *)

\* PacketSniffer.__init__ (packet_sniffer.py:31-36), and with `started`
\* PacketSniffer.start (packet_sniffer.py:134-147) after it.
SnifferInit(started) ==
    /\ packet_queue = <<>>
    /\ sniffer_is_running = started
    /\ sniffer_alive = started
    /\ sniffer_pc = "idle"
    /\ handling = NoPacket
    /\ captured = 0
    /\ pushed = <<>>
    /\ discarded = {}
    /\ evictions = {}

InitPush ==
    /\ SnifferInit(TRUE)
    /\ AggInit
    /\ MonitorInit

PushCapture == SnifferPut(MaxPushes, WirePush)

NextPush == PushCapture \/ SnifferGet \/ SnifferReput

SpecPush == InitPush /\ [][NextPush]_vars

\* The pushes whose handler call has returned.
CompletedPushes == IF sniffer_pc = "idle" THEN pushed ELSE Front(pushed)

QueueStamps == [i \in 1..Len(packet_queue) |-> packet_queue[i].timestamp]

(* C1: with pushes only, the queue never holds more than its capacity, and
   whenever it is full it holds exactly the capacity-many most recently
   pushed packets, oldest first. *)
C1_BoundedMostRecent ==
    /\ Len(packet_queue) <= SNIFFER_QUEUE_SIZE
    /\ Len(packet_queue) = SNIFFER_QUEUE_SIZE =>
         QueueStamps = LastN(CompletedPushes, SNIFFER_QUEUE_SIZE)

\* A full queue after a push that had to evict.
C1_Witness ==
    /\ sniffer_pc = "idle"
    /\ Len(packet_queue) = SNIFFER_QUEUE_SIZE
    /\ Len(pushed) > SNIFFER_QUEUE_SIZE
    /\ evictions # {}

----------------------------------------------------------------------------
(* The aggregator under its callers: the enrichment worker in add_packet,
   dashboard sessions in the read methods and in reset_stats *)

\* The records the worker hands to add_packet here.
AggInputs(n) ==
    { EnrichedRecord(MakePacket(n, Template(LanHost, 50001, LanPeer, 22, 100)),
                     "Unknown", NoPid, LocalNetworkName, "Local"),
      EnrichedRecord(MakePacket(n, Template(StreamHost, 443, LanHost, 50000, 200)),
                     "Spotify", 7, LocalNetworkName, "Local"),
      EnrichedRecord(MakePacket(n, Template(Docker, 50002, StreamHost, 443, 300)),
                     "Spotify", 7, SpotifyEdgeName, "Streaming") }

ReadRequests ==
    { [method |-> "get_recent_packets", arg |-> 1],
      [method |-> "get_top_apps", arg |-> 1],
      [method |-> "get_bandwidth_by_category", arg |-> 0],
      [method |-> "get_bandwidth_history", arg |-> 0],
      [method |-> "get_current_stats", arg |-> 0],
      [method |-> "get_app_details", arg |-> 0] }

\* What read method req returns on aggregator a at clock reading t.
ReadResult(req, a, t) ==
    [method |-> req.method,
     value |->
       CASE req.method = "get_recent_packets" -> get_recent_packets(a, req.arg)
         [] req.method = "get_top_apps" -> get_top_apps(a, req.arg)
         [] req.method = "get_bandwidth_by_category" -> get_bandwidth_by_category(a)
         [] req.method = "get_bandwidth_history" -> get_bandwidth_history(a)
         [] req.method = "get_current_stats" -> get_current_stats(a, t)
         [] OTHER -> get_app_details(a, "Spotify")]

aggOthers == <<snifferVars, pipeVars>>

\* data_aggregator.py:61: add_packet(p) enters its critical section.
AggAddBegin ==
    /\ agg_lock = "free"
    /\ writer_pc = "idle"
    /\ records_since < MaxRecords
    /\ \E p \in AggInputs(records_since + 1) :
         /\ writer_pkt' = p
         /\ bytes_since' = bytes_since + p.packet_size
    /\ agg_lock' = "writer"
    /\ writer_pc' = "app"
    /\ records_since' = records_since + 1
    /\ last_mutation' = "add"
    /\ UNCHANGED <<agg, reset_pc, now, snap, rest, reset_found, sampled>>
    /\ UNCHANGED aggOthers

AggAddApp ==
    /\ writer_pc = "app"
    /\ agg' = AggRecordApp(agg, writer_pkt)
    /\ writer_pc' = "category"
    /\ UNCHANGED <<agg_lock, writer_pkt, reset_pc, now, snap, rest, records_since, bytes_since, last_mutation, reset_found, sampled>>
    /\ UNCHANGED aggOthers

AggAddCategory ==
    /\ writer_pc = "category"
    /\ agg' = AggRecordCategory(agg, writer_pkt)
    /\ writer_pc' = "direction"
    /\ UNCHANGED <<agg_lock, writer_pkt, reset_pc, now, snap, rest, records_since, bytes_since, last_mutation, reset_found, sampled>>
    /\ UNCHANGED aggOthers

AggAddDirection ==
    /\ writer_pc = "direction"
    /\ agg' = AggRecordDirection(agg, writer_pkt)
    /\ writer_pc' = "rate"
    /\ UNCHANGED <<agg_lock, writer_pkt, reset_pc, now, snap, rest, records_since, bytes_since, last_mutation, reset_found, sampled>>
    /\ UNCHANGED aggOthers

\* data_aggregator.py:86-103 and the end of the `with` block, by return or
\* by ZeroDivisionError.
AggAddRate ==
    /\ writer_pc = "rate"
    /\ LET r == AggRecordRate(agg, writer_pkt, now) IN
         /\ agg' = r.agg
         /\ rest' = r.agg
         /\ sampled' = SampledAfter(agg, r.agg, now)
    /\ agg_lock' = "free"
    /\ writer_pc' = "idle"
    /\ writer_pkt' = NoPacket
    /\ UNCHANGED <<reset_pc, now, snap, records_since, bytes_since,
                   last_mutation, reset_found>>
    /\ UNCHANGED aggOthers

\* data_aggregator.py:224: reset_stats enters its critical section.
AggResetBegin ==
    /\ agg_lock = "free"
    /\ reset_pc = "idle"
    /\ agg_lock' = "reset"
    /\ reset_pc' = "collections"
    /\ reset_found' = (/\ agg.total_packets > 0
                       /\ agg.current_rate.num > 0
                       /\ agg.bandwidth_history # <<>>
                       /\ agg.total_download > 0)
    /\ last_mutation' = "reset"
    /\ UNCHANGED <<agg, writer_pc, writer_pkt, now, snap, rest, records_since,
                   bytes_since, sampled>>
    /\ UNCHANGED aggOthers

AggResetCollections ==
    /\ reset_pc = "collections"
    /\ agg' = reset_stats_collections(agg)
    /\ sampled' = <<>>
    /\ reset_pc' = "counters"
    /\ UNCHANGED <<agg_lock, writer_pc, writer_pkt, now, snap, rest,
                   records_since, bytes_since, last_mutation, reset_found>>
    /\ UNCHANGED aggOthers

AggResetCounters ==
    /\ reset_pc = "counters"
    /\ agg' = reset_stats_counters(agg, now)
    /\ rest' = agg'
    /\ agg_lock' = "free"
    /\ reset_pc' = "idle"
    /\ records_since' = 0
    /\ bytes_since' = 0
    /\ UNCHANGED <<writer_pc, writer_pkt, now, snap, last_mutation,
                   reset_found, sampled>>
    /\ UNCHANGED aggOthers

\* A mutant of AggRead: the read does not take self.lock.
AggRead_NoLock(req) ==
    /\ snap' = [method |-> req.method,
                torn |-> ReadResult(req, agg, now) # ReadResult(req, rest, now),
                packets |-> agg.total_packets]
    /\ UNCHANGED <<agg, agg_lock, writer_pc, writer_pkt, reset_pc, now, rest,
                   records_since, bytes_since, last_mutation, reset_found, sampled>>
    /\ UNCHANGED aggOthers

\* A read method (data_aggregator.py:126-220): take the lock, copy out,
\* release.
AggRead(req) ==
    /\ agg_lock = "free"
    /\ snap' = [method |-> req.method,
                torn |-> ReadResult(req, agg, now) # ReadResult(req, rest, now),
                packets |-> agg.total_packets]
    /\ UNCHANGED <<agg, agg_lock, writer_pc, writer_pkt, reset_pc, now, rest,
                   records_since, bytes_since, last_mutation, reset_found, sampled>>
    /\ UNCHANGED aggOthers

AggReadAny == \E req \in ReadRequests : AggRead(req)

\* time.time() moves on.
Tick ==
    /\ now < MaxClock
    /\ now' = now + 1
    /\ UNCHANGED <<agg, agg_lock, writer_pc, writer_pkt, reset_pc, snap, rest,
                   records_since, bytes_since, last_mutation,
                   reset_found, sampled>>
    /\ UNCHANGED aggOthers

InitAgg ==
    /\ SnifferInit(FALSE)
    /\ AggInit
    /\ MonitorInit

NextAgg ==
    \/ AggAddBegin \/ AggAddApp \/ AggAddCategory \/ AggAddDirection
    \/ AggAddRate
    \/ AggResetBegin \/ AggResetCollections \/ AggResetCounters
    \/ AggReadAny
    \/ Tick

SpecAgg == InitAgg /\ [][NextAgg]_vars

(* C6: once add_packet has been called N times since construction or the
   last reset, with sizes summing to S, and no call is inside the
   aggregator: total_bandwidth = S, total_upload + total_download = S, the
   per-application totals sum to S, the per-category totals sum to S, and
   total_packets = N. *)
C6_SumInvariant ==
    agg_lock = "free" =>
      /\ get_current_stats(agg, now).total_bandwidth = bytes_since
      /\ agg.total_upload + agg.total_download = bytes_since
      /\ DictSum(agg.app_bandwidth) = bytes_since
      /\ DictSum(agg.category_bandwidth) = bytes_since
      /\ get_current_stats(agg, now).total_packets = records_since

\* Two records after a reset that cleared earlier ones, split over upload
\* and download.
C6_Witness ==
    /\ agg_lock = "free"
    /\ records_since = 2
    /\ reset_found
    /\ agg.total_upload > 0
    /\ agg.total_download > 0

(* C7: what a read method returns is what it returns on the aggregator as
   it stood between whole add_packet and reset_stats calls: no read sees a
   record or a reset applied in part. *)
C7_ReadsSeeWholeCalls == ~snap.torn

\* A read that returned while add_packet was inside its critical section.
C7_Witness ==
    /\ snap.method = "get_current_stats"
    /\ snap.packets > 0
    /\ writer_pc = "direction"

AllReadsEmpty(a, t) ==
    /\ \A n \in 0..MaxRecords :
         /\ get_top_apps(a, n) = <<>>
         /\ get_recent_packets(a, n) = <<>>
    /\ get_bandwidth_by_category(a) = <<>>
    /\ get_bandwidth_history(a) = <<>>
    /\ LET st == get_current_stats(a, t) IN
         /\ st.total_packets = 0
         /\ st.total_bandwidth = 0
         /\ st.total_upload = 0
         /\ st.total_download = 0
         /\ st.current_rate.num = 0
         /\ st.active_apps = 0

(* C8: once reset_stats has returned and until the next add_packet begins,
   get_top_apps, get_bandwidth_by_category, get_bandwidth_history and
   get_recent_packets return empty lists and get_current_stats reports
   total_packets, total_bandwidth, total_upload, total_download,
   current_rate and active_apps all 0, whatever was recorded before. *)
C8_ResetZeroes ==
    (last_mutation = "reset" /\ agg_lock = "free") => AllReadsEmpty(agg, now)

\* A reset that found records, a rate and a sample to clear.
C8_Witness ==
    /\ last_mutation = "reset"
    /\ agg_lock = "free"
    /\ reset_found

----------------------------------------------------------------------------
(* The pipeline: the capture thread, the enrichment worker and the main
   thread in start(), stop() and the exit of the process *)

\* What the operating system and the network answer during enrichment.
OsOutcomes ==
    { [kind |-> "table",
       table |-> <<OsConn(50000, StreamHost, 443, 7, "Spotify Helper")>>],
      [kind |-> "denied", table |-> <<>>] }

LsofOutcomes ==
    { [kind |-> "output", pid |-> 31, name |-> "python3"],
      [kind |-> "empty", pid |-> NoPid, name |-> NoneStr],
      [kind |-> "oserror", pid |-> NoPid, name |-> NoneStr] }

DnsOutcomes ==
    { [kind |-> "host", name |-> SpotifyEdgeName],
      [kind |-> "herror", name |-> NoneHost] }

\* What the interface carries.
Wire ==
    { Template(LanHost, 50000, StreamHost, 443, 100),
      Template(StreamHost, 443, LanHost, 50000, 200),
      Template(LanHost, 50001, LanPeer, 22, 300) }

pipeOthers == <<snifferVars, aggVars>>

WorkerEnded == worker_pc \in {"done", "dead"}

\* NetworkMonitor.start (monitor.py:134-155): the flag, a new sniffer and
\* its capture thread.
MonitorStartSniffer ==
    /\ mon_pc = "new"
    /\ ~mon_is_running
    /\ mon_is_running' = TRUE
    /\ sniffer_is_running' = TRUE
    /\ sniffer_alive' = TRUE
    /\ mon_pc' = "sleeping"
    /\ life' = [life EXCEPT !.calls = @ + 1,
                            !.call = [op |-> "start", was_running |-> FALSE],
                            !.sniffers = @ + 1]
    /\ UNCHANGED <<packet_queue, sniffer_pc, handling, captured, pushed,
                   discarded, evictions>>
    /\ UNCHANGED <<worker_pc, worker_pkt, batch_buffer>>
    /\ UNCHANGED <<popped, raised, appended, failed, join_timed_out,
                   left_in_buffer>>
    /\ UNCHANGED <<aggVars, mapperVars, storeVars>>

\* monitor.py:158-167: after sleep(2), the worker thread.
MonitorStartWorker ==
    /\ mon_pc = "sleeping"
    /\ worker_pc' = "check"
    /\ mon_pc' = "running"
    /\ life' = [life EXCEPT !.workers = @ + 1]
    /\ UNCHANGED <<mon_is_running, worker_pkt, batch_buffer>>
    /\ UNCHANGED <<popped, raised, appended, failed, join_timed_out,
                   left_in_buffer>>
    /\ UNCHANGED <<pipeOthers, mapperVars, storeVars>>

\* A mutant of WorkerCheck: the loop does not read is_running again.
WorkerCheck_IgnoresFlag ==
    /\ worker_pc = "check"
    /\ worker_pc' = "get"
    /\ UNCHANGED <<mon_is_running, mon_pc, worker_pkt, batch_buffer>>
    /\ UNCHANGED <<pipeOthers, mapperVars, storeVars, histVars>>

\* monitor.py:54: while self.is_running
WorkerCheck ==
    /\ worker_pc = "check"
    /\ worker_pc' = IF mon_is_running THEN "get" ELSE "flush"
    /\ UNCHANGED <<mon_is_running, mon_pc, worker_pkt, batch_buffer>>
    /\ UNCHANGED <<pipeOthers, mapperVars, storeVars, histVars>>

\* monitor.py:57-60 and PacketSniffer.get_packet (packet_sniffer.py:166-179):
\* the oldest queued packet, or None once the timeout has passed.
WorkerGet ==
    /\ worker_pc = "get"
    /\ IF packet_queue # <<>>
         THEN /\ worker_pkt' = Head(packet_queue)
              /\ packet_queue' = Tail(packet_queue)
              /\ popped' = Append(popped,
                     [timestamp   |-> Head(packet_queue).timestamp,
                      source_ip   |-> Head(packet_queue).source_ip,
                      packet_size |-> Head(packet_queue).packet_size,
                      running     |-> mon_is_running])
              /\ worker_pc' = "enrich"
         ELSE /\ worker_pc' = "check"
              /\ UNCHANGED <<worker_pkt, packet_queue, popped>>
    /\ UNCHANGED <<sniffer_is_running, sniffer_alive, sniffer_pc, handling,
                   captured, pushed, discarded, evictions>>
    /\ UNCHANGED <<mon_is_running, mon_pc, batch_buffer>>
    /\ UNCHANGED <<raised, appended, failed, join_timed_out, left_in_buffer, life>>
    /\ UNCHANGED <<aggVars, mapperVars, storeVars>>

\* monitor.py:63, and line 77 when the mapper raises.
WorkerEnrich(oss, lsofs, lookups) ==
    /\ worker_pc = "enrich"
    /\ \E os \in oss, lsof \in lsofs, lookup \in lookups :
         LET e == enrich_packet(worker_pkt, mapper, dns_cache, os, lsof, lookup) IN
         /\ mapper' = e.mapper
         /\ dns_cache' = e.dns_cache
         /\ UNCHANGED <<mapper_ret, dns_ret>>
         /\ IF e.raised
              THEN /\ raised' = raised \cup {worker_pkt.timestamp}
                   /\ worker_pkt' = NoPacket
                   /\ worker_pc' = "check"
              ELSE /\ raised' = raised
                   /\ worker_pkt' = e.record
                   /\ worker_pc' = "aggregate"
    /\ UNCHANGED <<mon_is_running, mon_pc, batch_buffer>>
    /\ UNCHANGED <<popped, appended, failed, join_timed_out, left_in_buffer, life>>
    /\ UNCHANGED <<pipeOthers, storeVars>>

WorkerEnrichAny == WorkerEnrich(OsOutcomes, LsofOutcomes, DnsOutcomes)

\* monitor.py:66: aggregator.add_packet, the whole critical section, and
\* line 77 when it raises.
WorkerAggregate ==
    /\ worker_pc = "aggregate"
    /\ agg_lock = "free"
    /\ LET r == add_packet(agg, worker_pkt, now) IN
         /\ agg' = r.agg
         /\ rest' = r.agg
         /\ sampled' = SampledAfter(agg, r.agg, now)
         /\ IF r.raised
              THEN /\ raised' = raised \cup {worker_pkt.timestamp}
                   /\ worker_pkt' = NoPacket
                   /\ worker_pc' = "check"
              ELSE /\ raised' = raised
                   /\ worker_pkt' = worker_pkt
                   /\ worker_pc' = "append"
    /\ records_since' = records_since + 1
    /\ bytes_since' = bytes_since + worker_pkt.packet_size
    /\ last_mutation' = "add"
    /\ UNCHANGED <<agg_lock, writer_pc, writer_pkt, reset_pc, now, snap,
                   reset_found>>
    /\ UNCHANGED <<mon_is_running, mon_pc, batch_buffer>>
    /\ life' = [life EXCEPT !.handed = @ \cup {worker_pkt.timestamp}]
    /\ UNCHANGED <<popped, appended, failed, join_timed_out, left_in_buffer>>
    /\ UNCHANGED <<snifferVars, mapperVars, storeVars>>

\* A mutant of WorkerAppend: the buffer is flushed once it holds more than
\* BATCH_INSERT_SIZE records.
WorkerAppend_FlushesLate ==
    /\ worker_pc = "append"
    /\ LET buffer == Append(batch_buffer, worker_pkt) IN
       IF Len(buffer) > BATCH_INSERT_SIZE
         THEN \E available \in BOOLEAN :
                LET r == insert_batch(connections, sqlite_sequence, buffer, available) IN
                /\ connections' = r.connections
                /\ sqlite_sequence' = r.sqlite_sequence
                /\ batch_buffer' = IF r.raised THEN buffer ELSE <<>>
                /\ failed' = IF r.raised THEN failed \cup Timestamps(buffer) ELSE failed
                /\ raised' = IF r.raised THEN raised \cup {worker_pkt.timestamp}
                                         ELSE raised
         ELSE /\ batch_buffer' = buffer
              /\ UNCHANGED <<connections, sqlite_sequence, failed, raised>>
    /\ appended' = Append(appended, worker_pkt.timestamp)
    /\ worker_pkt' = NoPacket
    /\ worker_pc' = "check"
    /\ UNCHANGED <<store_pc, store_call, txn, submitted, store_ret>>
    /\ UNCHANGED <<mon_is_running, mon_pc, popped, join_timed_out, left_in_buffer, life>>
    /\ UNCHANGED <<pipeOthers, mapperVars>>

\* A mutant of WorkerAppend: the buffer is not cleared after the write.
WorkerAppend_KeepsWritten ==
    /\ worker_pc = "append"
    /\ LET buffer == Append(batch_buffer, worker_pkt) IN
       IF Len(buffer) >= BATCH_INSERT_SIZE
         THEN \E available \in BOOLEAN :
                LET r == insert_batch(connections, sqlite_sequence, buffer, available) IN
                /\ connections' = r.connections
                /\ sqlite_sequence' = r.sqlite_sequence
                /\ batch_buffer' = buffer
                /\ failed' = IF r.raised THEN failed \cup Timestamps(buffer) ELSE failed
                /\ raised' = IF r.raised THEN raised \cup {worker_pkt.timestamp}
                                         ELSE raised
         ELSE /\ batch_buffer' = buffer
              /\ UNCHANGED <<connections, sqlite_sequence, failed, raised>>
    /\ appended' = Append(appended, worker_pkt.timestamp)
    /\ worker_pkt' = NoPacket
    /\ worker_pc' = "check"
    /\ UNCHANGED <<store_pc, store_call, txn, submitted, store_ret>>
    /\ UNCHANGED <<mon_is_running, mon_pc, popped, join_timed_out, left_in_buffer, life>>
    /\ UNCHANGED <<pipeOthers, mapperVars>>

\* monitor.py:69-75: append under batch_lock and, once the buffer has
\* BATCH_INSERT_SIZE records, insert_batch and clear.  When insert_batch
\* raises, clear is not reached and line 77 catches the exception.
WorkerAppend ==
    /\ worker_pc = "append"
    /\ LET buffer == Append(batch_buffer, worker_pkt) IN
       IF Len(buffer) >= BATCH_INSERT_SIZE
         THEN \E available \in BOOLEAN :
                LET r == insert_batch(connections, sqlite_sequence, buffer, available) IN
                /\ connections' = r.connections
                /\ sqlite_sequence' = r.sqlite_sequence
                /\ batch_buffer' = IF r.raised THEN buffer ELSE <<>>
                /\ failed' = IF r.raised THEN failed \cup Timestamps(buffer) ELSE failed
                /\ raised' = IF r.raised THEN raised \cup {worker_pkt.timestamp}
                                         ELSE raised
         ELSE /\ batch_buffer' = buffer
              /\ UNCHANGED <<connections, sqlite_sequence, failed, raised>>
    /\ appended' = Append(appended, worker_pkt.timestamp)
    /\ worker_pkt' = NoPacket
    /\ worker_pc' = "check"
    /\ UNCHANGED <<store_pc, store_call, txn, submitted, store_ret>>
    /\ UNCHANGED <<mon_is_running, mon_pc, popped, join_timed_out, left_in_buffer, life>>
    /\ UNCHANGED <<pipeOthers, mapperVars>>

\* A mutant of WorkerFlush: the worker ends without the shutdown flush.
WorkerFlush_Skipped ==
    /\ worker_pc = "flush"
    /\ worker_pc' = "done"
    /\ UNCHANGED <<connections, sqlite_sequence, batch_buffer, failed>>
    /\ UNCHANGED <<store_pc, store_call, txn, submitted, store_ret>>
    /\ UNCHANGED <<mon_is_running, mon_pc, worker_pkt>>
    /\ UNCHANGED <<popped, raised, appended, join_timed_out, left_in_buffer, life>>
    /\ UNCHANGED <<pipeOthers, mapperVars>>

\* monitor.py:81-87: the flush after the loop.  It is outside the try of
\* the loop: when insert_batch raises, the exception ends the thread.
WorkerFlush ==
    /\ worker_pc = "flush"
    /\ IF batch_buffer # <<>>
         THEN \E available \in BOOLEAN :
                LET r == insert_batch(connections, sqlite_sequence, batch_buffer, available) IN
                /\ connections' = r.connections
                /\ sqlite_sequence' = r.sqlite_sequence
                /\ batch_buffer' = IF r.raised THEN batch_buffer ELSE <<>>
                /\ failed' = IF r.raised THEN failed \cup Timestamps(batch_buffer)
                                         ELSE failed
                /\ worker_pc' = IF r.raised THEN "dead" ELSE "done"
         ELSE /\ worker_pc' = "done"
              /\ UNCHANGED <<connections, sqlite_sequence, batch_buffer, failed>>
    /\ UNCHANGED <<store_pc, store_call, txn, submitted, store_ret>>
    /\ UNCHANGED <<mon_is_running, mon_pc, worker_pkt>>
    /\ UNCHANGED <<popped, raised, appended, join_timed_out, left_in_buffer, life>>
    /\ UNCHANGED <<pipeOthers, mapperVars>>

\* NetworkMonitor.stop (monitor.py:177-188): the flag is cleared and
\* PacketSniffer.stop (packet_sniffer.py:154-162) clears the sniffer's.
MonitorStop ==
    /\ mon_pc = "running"
    /\ mon_is_running
    /\ mon_is_running' = FALSE
    /\ sniffer_is_running' = FALSE
    /\ mon_pc' = "joining"
    /\ life' = [life EXCEPT !.calls = @ + 1,
                            !.call = [op |-> "stop", was_running |-> TRUE]]
    /\ UNCHANGED <<packet_queue, sniffer_alive, sniffer_pc, handling, captured,
                   pushed, discarded, evictions>>
    /\ UNCHANGED <<worker_pc, worker_pkt, batch_buffer>>
    /\ UNCHANGED <<popped, raised, appended, failed, join_timed_out,
                   left_in_buffer>>
    /\ UNCHANGED <<aggVars, mapperVars, storeVars>>

\* monitor.py:191-200: processor_thread.join(timeout=5) returns because
\* the worker thread has ended; stop() returns.
MonitorJoined ==
    /\ mon_pc = "joining"
    /\ WorkerEnded
    /\ mon_pc' = "stopped"
    /\ left_in_buffer' = Timestamps(batch_buffer)
    /\ UNCHANGED <<mon_is_running, worker_pc, worker_pkt, batch_buffer>>
    /\ UNCHANGED <<popped, raised, appended, failed, join_timed_out, life>>
    /\ UNCHANGED <<pipeOthers, mapperVars, storeVars>>

\* monitor.py:191-200: the join returns after its 5 seconds with the
\* worker still alive; stop() returns.
MonitorJoinTimeout ==
    /\ mon_pc = "joining"
    /\ ~WorkerEnded
    /\ mon_pc' = "stopped"
    /\ join_timed_out' = TRUE
    /\ left_in_buffer' = Timestamps(batch_buffer)
    /\ UNCHANGED <<mon_is_running, worker_pc, worker_pkt, batch_buffer>>
    /\ UNCHANGED <<popped, raised, appended, failed, life>>
    /\ UNCHANGED <<pipeOthers, mapperVars, storeVars>>

\* The process ends after stop(): sys.exit(0) in the signal handler
\* (monitor.py:278-279) or the return of run() and main() (monitor.py:221,
\* 285).  The worker and the capture thread are daemon threads
\* (monitor.py:164, packet_sniffer.py:144) and end with it wherever they are.
ProcessExit ==
    /\ mon_pc = "stopped"
    /\ mon_pc' = "exited"
    /\ worker_pc' = IF WorkerEnded THEN worker_pc ELSE "killed"
    /\ sniffer_alive' = FALSE
    /\ sniffer_pc' = "idle"
    /\ handling' = NoPacket
    /\ UNCHANGED <<packet_queue, sniffer_is_running, captured, pushed,
                   discarded, evictions>>
    /\ UNCHANGED <<mon_is_running, worker_pkt, batch_buffer>>
    /\ UNCHANGED <<aggVars, mapperVars, storeVars, histVars>>

Capture == SnifferPut(MaxPackets, Wire)

Init ==
    /\ SnifferInit(FALSE)
    /\ AggInit
    /\ MonitorInit

Next ==
    \/ MonitorStartSniffer \/ MonitorStartWorker
    \/ Capture \/ SnifferGet \/ SnifferReput
    \/ WorkerCheck \/ WorkerGet \/ WorkerEnrichAny \/ WorkerAggregate
    \/ WorkerAppend \/ WorkerFlush
    \/ MonitorStop \/ MonitorJoined \/ MonitorJoinTimeout
    \/ ProcessExit

Spec == Init /\ [][Next]_vars

(* C2: on every push to a full queue, whatever the worker pops meanwhile,
   the push evicts exactly the oldest queued packet and inserts the new
   one: it never discards the packet it was given, and it never evicts a
   packet from a queue that is no longer full. *)
C2_PushEvictsOldestOfFullQueue ==
    /\ discarded = {}
    /\ \A e \in evictions : e[2]

(* C3: when stop() returns, every record that was appended to the batch
   buffer has been written to the store and the buffer is empty, also when
   the join timed out. *)
C3_StopFlushesBuffer ==
    mon_pc \in {"stopped", "exited"} => left_in_buffer = {}

(* C4: an exception while one packet is processed does not end the worker
   loop, and every packet popped after it while the monitor was running,
   whose own processing did not raise, is enriched, aggregated and, by the
   time the process ends, stored. *)
C4_LaterEventsStored ==
    /\ worker_pc = "dead" => ~mon_is_running
    /\ mon_pc = "exited" =>
         \A i, j \in 1..Len(popped) :
           (/\ i < j
            /\ popped[i].timestamp \in raised
            /\ popped[j].running
            /\ popped[j].timestamp \notin raised)
           => popped[j].timestamp \in StoredStamps

(* C5: no record leaves the batch buffer without having been committed,
   and every record of a batch that insert_batch refused, in the loop or in
   the shutdown flush, is written by a later flush: once the worker thread
   has ended, all of them are in the store. *)
C5_FailedBatchWritten ==
    /\ \A i \in 1..Len(appended) :
         appended[i] \in StoredStamps \cup Timestamps(batch_buffer)
    /\ WorkerEnded => failed \subseteq StoredStamps

----------------------------------------------------------------------------
(* End to end: three packets of 100, 200 and 300 bytes to a private
   destination, on ports no process is known for *)

E2ESizes == <<100, 200, 300>>

E2ESources == { LanHost, <<10, 0, 0, 7>>, Docker, PublicHost }

\* The next packet of the scenario, from any of the sources.
E2EWire ==
    { Template(src, 50001, LanPeer, 22, E2ESizes[captured + 1]) :
        src \in E2ESources }

\* lsof knows no process for the port: no output, or no answer in time.
E2ELsofOutcomes ==
    { [kind |-> "empty", pid |-> NoPid, name |-> NoneStr],
      [kind |-> "timeout", pid |-> NoPid, name |-> NoneStr] }

E2ECapture == SnifferPut(Len(E2ESizes), E2EWire)

E2EEnrich == WorkerEnrich(OsOutcomes, E2ELsofOutcomes, DnsOutcomes)

NextE2E ==
    \/ MonitorStartSniffer \/ MonitorStartWorker
    \/ E2ECapture \/ SnifferGet \/ SnifferReput
    \/ WorkerCheck \/ WorkerGet \/ E2EEnrich \/ WorkerAggregate
    \/ WorkerAppend

SpecE2E == Init /\ [][NextE2E]_vars

E2EAllAggregated == agg.total_packets = Len(E2ESizes)

FromPrivatePrefix(ip) ==
    \/ ip[1] = 192 /\ ip[2] = 168
    \/ ip[1] = 10
    \/ ip[1] = 172

RECURSIVE BytesFromPrivate(_)
BytesFromPrivate(ps) ==
    IF ps = <<>> THEN 0
    ELSE (IF FromPrivatePrefix(Head(ps).source_ip) THEN Head(ps).packet_size ELSE 0)
         + BytesFromPrivate(Tail(ps))

(* C9 as stated: after the three packets are enriched and aggregated,
   get_top_apps(1) is [("Unknown", 600)], get_bandwidth_by_category() is
   [("Local", 600)], total_upload is 600 and total_download is 0, whatever
   source addresses the packets carry. *)
C9_AnySourceIsUpload ==
    E2EAllAggregated =>
      /\ get_top_apps(agg, 1) = << <<"Unknown", 600>> >>
      /\ get_bandwidth_by_category(agg) = << <<"Local", 600>> >>
      /\ get_current_stats(agg, now).total_upload = 600
      /\ get_current_stats(agg, now).total_download = 0

(* C9 as amended: after the three packets are enriched and aggregated,
   get_top_apps(1) is [("Unknown", 600)], get_bandwidth_by_category() is
   [("Local", 600)], total_upload + total_download is 600, total_upload is
   the bytes of the packets whose source address starts with 192.168., 10.
   or 172. and total_download the bytes of the others: total_upload is 600
   and total_download 0 exactly when all three sources have such a
   prefix. *)
C9_EndToEnd ==
    E2EAllAggregated =>
      LET st == get_current_stats(agg, now) IN
      /\ get_top_apps(agg, 1) = << <<"Unknown", 600>> >>
      /\ get_bandwidth_by_category(agg) = << <<"Local", 600>> >>
      /\ st.total_upload + st.total_download = 600
      /\ st.total_upload = BytesFromPrivate(popped)
      /\ st.total_download = 600 - BytesFromPrivate(popped)
      /\ (st.total_upload = 600 /\ st.total_download = 0)
           <=> \A i \in 1..Len(popped) : FromPrivatePrefix(popped[i].source_ip)

\* All three aggregated: one from 172.200.1.1, counted as upload, and one
\* from a source with none of the prefixes, counted as download.
C9_Witness ==
    /\ E2EAllAggregated
    /\ agg.total_upload > 0
    /\ agg.total_download > 0
    /\ \E i \in 1..Len(popped) : popped[i].source_ip = Docker

----------------------------------------------------------------------------
(* The store under insert_batch: one sqlite3 connection per call, the rows
   of executemany written inside its implicit transaction, then commit *)

MaxBatches == 3
MaxBatchLen == 2

storeOthers == <<snifferVars, aggVars, mapperVars, monVars, histVars>>

\* A record the store accepts, and one whose protocol is None.
StoreInput(n, valid) ==
    LET r == EnrichedRecord(MakePacket(n, Template(LanHost, 50001, LanPeer, 22, 100 * n)),
                            "Unknown", NoPid, LocalNetworkName, "Local")
    IN IF valid THEN r ELSE [r EXCEPT !.protocol = NoneStr]

\* The data_lists of up to MaxBatchLen records with timestamps after base.
StoreBatches(base) ==
    UNION { { [i \in 1..n |-> StoreInput(base + i, v[i])] :
                v \in [1..n -> BOOLEAN] } : n \in 0..MaxBatchLen }

RECURSIVE SubmittedCount(_)
SubmittedCount(batches) ==
    IF batches = <<>> THEN 0
    ELSE Len(Head(batches)) + SubmittedCount(Tail(batches))

\* database.py:114-137: an empty data_list returns at once; otherwise the
\* call takes the lock, connects and builds `records`.
StoreInsertBegin ==
    /\ store_pc = "idle"
    /\ Len(submitted) < MaxBatches
    /\ \E data_list \in StoreBatches(SubmittedCount(submitted)) :
         /\ submitted' = Append(submitted, data_list)
         /\ store_call' = data_list
         /\ store_pc' = IF data_list = <<>> THEN "idle" ELSE "rows"
    /\ txn' = <<>>
    /\ UNCHANGED <<connections, sqlite_sequence, store_ret>>
    /\ UNCHANGED storeOthers

\* A mutant of StoreExecuteRow: the connection is in autocommit mode, each
\* row is committed as it is written.
StoreExecuteRow_Autocommit ==
    /\ store_pc = "rows"
    /\ Len(txn) < Len(store_call)
    /\ LET r == StoreRecord(store_call[Len(txn) + 1]) IN
       IF SatisfiesNotNull(r)
         THEN /\ txn' = Append(txn, StoreRow(r, sqlite_sequence + 1))
              /\ connections' = Append(connections, StoreRow(r, sqlite_sequence + 1))
              /\ sqlite_sequence' = sqlite_sequence + 1
              /\ UNCHANGED <<store_pc, store_call>>
         ELSE /\ txn' = <<>>
              /\ store_call' = <<>>
              /\ store_pc' = "idle"
              /\ UNCHANGED <<connections, sqlite_sequence>>
    /\ UNCHANGED <<submitted, store_ret>>
    /\ UNCHANGED storeOthers

\* database.py:139-145: executemany writes the next row inside the open
\* transaction.  A NULL in a NOT NULL column raises IntegrityError: the
\* exception leaves insert_batch before commit (line 146), the connection
\* is dropped and its transaction rolled back.
StoreExecuteRow ==
    /\ store_pc = "rows"
    /\ Len(txn) < Len(store_call)
    /\ LET r == StoreRecord(store_call[Len(txn) + 1]) IN
       IF SatisfiesNotNull(r)
         THEN /\ txn' = Append(txn, StoreRow(r, sqlite_sequence + Len(txn) + 1))
              /\ UNCHANGED <<store_pc, store_call>>
         ELSE /\ txn' = <<>>
              /\ store_call' = <<>>
              /\ store_pc' = "idle"
    /\ UNCHANGED <<connections, sqlite_sequence, submitted, store_ret>>
    /\ UNCHANGED storeOthers

\* database.py:146-147: commit makes the rows of the transaction part of
\* the table, all at once.
StoreCommit ==
    /\ store_pc = "rows"
    /\ Len(txn) = Len(store_call)
    /\ connections' = connections \o txn
    /\ sqlite_sequence' = sqlite_sequence + Len(txn)
    /\ txn' = <<>>
    /\ store_call' = <<>>
    /\ store_pc' = "idle"
    /\ UNCHANGED <<submitted, store_ret>>
    /\ UNCHANGED storeOthers

\* The call is interrupted before commit has returned: the database
\* refuses a write (sqlite3.OperationalError) or the process ends.  The
\* open transaction is rolled back.
StoreInterrupt ==
    /\ store_pc = "rows"
    /\ txn' = <<>>
    /\ store_call' = <<>>
    /\ store_pc' = "idle"
    /\ UNCHANGED <<connections, sqlite_sequence, submitted, store_ret>>
    /\ UNCHANGED storeOthers

NextStore ==
    \/ StoreInsertBegin \/ StoreExecuteRow \/ StoreCommit \/ StoreInterrupt

SpecStore == Init /\ [][NextStore]_vars

(* C10: whatever happens to an insert_batch call (a record with a NULL in
   a NOT NULL column anywhere in the batch, an interruption before or
   after any row), the table holds either every record of that batch or
   none of them, at every moment. *)
C10_AllOrNothing ==
    \A b \in 1..Len(submitted) :
      \/ Timestamps(submitted[b]) \subseteq StoredStamps
      \/ Timestamps(submitted[b]) \cap StoredStamps = {}

\* A batch whose second record was refused after its first row had been
\* written, with an earlier batch in the table.
C10_Witness ==
    /\ store_pc = "idle"
    /\ connections # <<>>
    /\ \E b \in 1..Len(submitted) :
         /\ Len(submitted[b]) = 2
         /\ submitted[b][1].protocol # NoneStr
         /\ submitted[b][2].protocol = NoneStr
         /\ Timestamps(submitted[b]) \cap StoredStamps = {}

----------------------------------------------------------------------------
(* The store round trip: one insert_batch into the new store, then the
   queries and cleanup_old_data while the clock advances *)

\* The records of a batch carry any timestamps of the clock's range; the
\* i-th has packet_size 100 * i.
RoundRecord(i, ts, valid) ==
    LET r == EnrichedRecord(MakePacket(ts, Template(LanHost, 50001, LanPeer, 22, 100 * i)),
                            "Unknown", NoPid, LocalNetworkName, "Local")
    IN IF valid THEN r ELSE [r EXCEPT !.protocol = NoneStr]

\* Batches of up to MaxBatchLen records, all valid or the last one with a
\* NULL protocol.
RoundBatches ==
    UNION { { [i \in 1..n |-> RoundRecord(i, ts[i], valid \/ i < n)] :
                ts \in [1..n -> 0..MaxClock], valid \in BOOLEAN } :
            n \in 0..MaxBatchLen }

\* insert_batch as one call on the new store (database.py:107-147).
RoundInsert ==
    /\ store_pc = "idle"
    /\ submitted = <<>>
    /\ \E data_list \in RoundBatches, available \in BOOLEAN :
         LET r == insert_batch(connections, sqlite_sequence, data_list, available) IN
         /\ connections' = r.connections
         /\ sqlite_sequence' = r.sqlite_sequence
         /\ submitted' = <<data_list>>
    /\ UNCHANGED <<store_pc, store_call, txn, store_ret>>
    /\ UNCHANGED storeOthers

\* A query or cleanup call on a database that cannot be opened or read
\* raises sqlite3.Error out of the method.
StoreCallRaised(op, days) ==
    [op |-> op, days |-> days, value |-> 0, raised |-> TRUE,
     before |-> connections, after |-> connections, at |-> now]

\* database.py:270-285
RoundCount ==
    /\ store_pc = "idle"
    /\ \E available \in BOOLEAN :
         store_ret' = IF available
                        THEN [op |-> "get_connection_count", days |-> 0,
                              value |-> get_connection_count(connections),
                              raised |-> FALSE, before |-> connections,
                              after |-> connections, at |-> now]
                        ELSE StoreCallRaised("get_connection_count", 0)
    /\ UNCHANGED <<connections, sqlite_sequence, store_pc, store_call, txn, submitted>>
    /\ UNCHANGED storeOthers

\* database.py:226-241
RoundBandwidth ==
    /\ store_pc = "idle"
    /\ \E available \in BOOLEAN :
         store_ret' = IF available
                        THEN [op |-> "get_total_bandwidth", days |-> 0,
                              value |-> get_total_bandwidth(connections),
                              raised |-> FALSE, before |-> connections,
                              after |-> connections, at |-> now]
                        ELSE StoreCallRaised("get_total_bandwidth", 0)
    /\ UNCHANGED <<connections, sqlite_sequence, store_pc, store_call, txn, submitted>>
    /\ UNCHANGED storeOthers

\* database.py:287-309, with days 0 (keep nothing) or 1.
RoundCleanup ==
    /\ store_pc = "idle"
    /\ \E days \in 0..1, available \in BOOLEAN :
         IF available
           THEN LET c == cleanup_old_data(connections, now, days) IN
                /\ connections' = c.connections
                /\ store_ret' = [op |-> "cleanup_old_data", days |-> days,
                                 value |-> c.deleted, raised |-> FALSE,
                                 before |-> connections,
                                 after |-> c.connections, at |-> now]
           ELSE /\ store_ret' = StoreCallRaised("cleanup_old_data", days)
                /\ UNCHANGED connections
    /\ UNCHANGED <<sqlite_sequence, store_pc, store_call, txn, submitted>>
    /\ UNCHANGED storeOthers

NextRound ==
    \/ RoundInsert \/ RoundCount \/ RoundBandwidth \/ RoundCleanup \/ Tick

SpecRound == Init /\ [][NextRound]_vars

\* The one batch was committed, and the last call ran on the table as
\* that insert left it and returned.
RoundOnInserted ==
    /\ Len(submitted) = 1
    /\ sqlite_sequence = Len(submitted[1])
    /\ ~store_ret.raised
    /\ [i \in 1..Len(store_ret.before) |-> store_ret.before[i].data]
         = [i \in 1..Len(submitted[1]) |-> StoreRecord(submitted[1][i])]

RECURSIVE RoundSizes(_)
RoundSizes(batch) ==
    IF batch = <<>> THEN 0 ELSE Head(batch).packet_size + RoundSizes(Tail(batch))

RoundQueriesAgree ==
    /\ store_ret.op = "get_connection_count"
         => store_ret.value = Len(submitted[1])
    /\ store_ret.op = "get_total_bandwidth"
         => store_ret.value = RoundSizes(submitted[1])

(* C11 as stated: after a batch of n records is inserted into the empty
   store, get_connection_count() returns n, get_total_bandwidth() returns
   the sum of their packet sizes, and a following cleanup_old_data(0)
   removes all n records and returns n, whatever their timestamps. *)
C11_CleanupRemovesAll ==
    RoundOnInserted =>
      /\ RoundQueriesAgree
      /\ (store_ret.op = "cleanup_old_data" /\ store_ret.days = 0)
           => /\ store_ret.value = Len(submitted[1])
              /\ store_ret.after = <<>>

(* C11 amended: after a batch of n records is inserted into the empty
   store, get_connection_count() returns n, get_total_bandwidth() returns
   the sum of their packet sizes, and a following cleanup_old_data(0)
   removes exactly the records whose timestamp is earlier than the clock
   reading of that call and returns their number; records stamped at or
   after that reading stay. *)
C11_CleanupRemovesEarlier ==
    RoundOnInserted =>
      /\ RoundQueriesAgree
      /\ (store_ret.op = "cleanup_old_data" /\ store_ret.days = 0)
           => LET batch == submitted[1]
                  earlier == { i \in 1..Len(batch) : batch[i].timestamp < store_ret.at }
                  kept == SelectSeq(batch, LAMBDA d : d.timestamp >= store_ret.at)
              IN /\ store_ret.value = Cardinality(earlier)
                 /\ [i \in 1..Len(store_ret.after) |-> store_ret.after[i].data]
                      = [i \in 1..Len(kept) |-> StoreRecord(kept[i])]
                 /\ connections = store_ret.after

\* cleanup_old_data(0) on two inserted records, one stamped before the
\* clock reading and one at it: one removed, one kept.
C11_Witness ==
    /\ RoundOnInserted
    /\ store_ret.op = "cleanup_old_data"
    /\ store_ret.days = 0
    /\ Len(submitted[1]) = 2
    /\ store_ret.value = 1
    /\ Len(connections) = 1
    /\ connections[1].data.timestamp = store_ret.at

----------------------------------------------------------------------------
(* The mapper alone: find_process_by_port and clear_cache called with any
   connection, against any answer of psutil and lsof *)

\* What psutil.net_connections may do at a refresh: two connections of one
\* local port, another table, no connection at all, AccessDenied, or any
\* other exception.
MapperOs ==
    { [kind |-> "table",
       table |-> <<OsConn(50000, StreamHost, 443, 7, "Spotify Helper"),
                   OsConn(50000, PublicHost, 443, 8, "firefox")>>],
      [kind |-> "table",
       table |-> <<OsConn(50001, PublicHost, 53, 9, "mDNSResponder")>>],
      [kind |-> "table", table |-> <<>>],
      [kind |-> "denied", table |-> <<>>],
      [kind |-> "error", table |-> <<>>] }

\* What subprocess.run(['lsof', ...]) may do: print a pid and a command,
\* print nothing, exit non-zero, print a pid line that int() refuses
\* (ValueError), exceed the timeout, or not start at all because lsof is
\* missing (FileNotFoundError) or not executable (PermissionError), both
\* OSError.
MapperLsof ==
    { [kind |-> "output", pid |-> 31, name |-> "python3"],
      [kind |-> "empty", pid |-> NoPid, name |-> NoneStr],
      [kind |-> "nonzero", pid |-> NoPid, name |-> NoneStr],
      [kind |-> "unparsable", pid |-> NoPid, name |-> NoneStr],
      [kind |-> "timeout", pid |-> NoPid, name |-> NoneStr],
      [kind |-> "oserror", pid |-> NoPid, name |-> NoneStr] }

MapperPorts == {50000, 50002}

MapperRemotes == { <<StreamHost, 443>>, <<PublicHost, 443>>, <<LanPeer, 0>> }

mapperOthers == <<snifferVars, aggVars, storeVars, monVars, histVars>>

\* One call of find_process_by_port (process_mapper.py:70-105).  calls_since
\* counts the calls since the last call that was the REFRESH_INTERVAL-th,
\* or since clear_cache or construction.
MapperResolve ==
    /\ \E local_port \in MapperPorts, remote \in MapperRemotes,
          os \in MapperOs, lsof \in MapperLsof :
         LET f == find_process_by_port(mapper, local_port, remote[1], remote[2],
                                       os, lsof)
             n == mapper_ret.calls_since + 1
         IN /\ mapper' = f.mapper
            /\ mapper_ret' =
                 [op |-> "find_process_by_port", local_port |-> local_port,
                  remote_ip |-> remote[1], remote_port |-> remote[2],
                  os |-> os, lsof |-> lsof, result |-> f.result, raised |-> f.raised,
                  refreshed |-> f.refreshed, lsof_called |-> f.lsof_called,
                  before |-> mapper, kth |-> n = REFRESH_INTERVAL,
                  calls_since |-> IF n = REFRESH_INTERVAL THEN 0 ELSE n]
    /\ UNCHANGED <<dns_cache, dns_ret>>
    /\ UNCHANGED mapperOthers

\* process_mapper.py:220-224
MapperClear ==
    /\ mapper' = clear_cache(mapper)
    /\ mapper_ret' = [NoMapperCall EXCEPT !.op = "clear_cache", !.before = mapper]
    /\ UNCHANGED <<dns_cache, dns_ret>>
    /\ UNCHANGED mapperOthers

NextMapper == MapperResolve \/ MapperClear

SpecMapper == Init /\ [][NextMapper]_vars

(* C12: find_process_by_port never raises: whatever the refresh and lsof
   do, the call returns a (pid, process name) pair or (None, None). *)
C12_NeverRaises ==
    mapper_ret.op = "find_process_by_port" =>
      /\ ~mapper_ret.raised
      /\ \/ mapper_ret.result = NoProcess
         \/ mapper_ret.result[1] # NoPid /\ mapper_ret.result[2] # NoneStr

(* C13: the fallback chain of find_process_by_port on the snapshot it
   looks in: the value of the exact key (local port, remote IP, remote
   port) when the key is there; otherwise the first entry with that local
   port; lsof is run only when no entry has that local port, and then its
   pair or (None, None) is what the call returns. *)
C13_FallbackChain ==
    mapper_ret.op = "find_process_by_port" =>
      LET snapshot == mapper.connection_cache
          key == <<mapper_ret.local_port, mapper_ret.remote_ip, mapper_ret.remote_port>>
          samePort == { i \in 1..Len(snapshot) : snapshot[i][1][1] = mapper_ret.local_port }
          first == CHOOSE i \in samePort : \A j \in samePort : i <= j
      IN IF \E i \in 1..Len(snapshot) : snapshot[i][1] = key
           THEN /\ ~mapper_ret.lsof_called
                /\ ~mapper_ret.raised
                /\ \E i \in 1..Len(snapshot) :
                     snapshot[i][1] = key /\ mapper_ret.result = snapshot[i][2]
         ELSE IF samePort # {}
           THEN /\ ~mapper_ret.lsof_called
                /\ ~mapper_ret.raised
                /\ mapper_ret.result = snapshot[first][2]
         ELSE /\ mapper_ret.lsof_called
              /\ ~mapper_ret.raised
              /\ mapper_ret.result \in
                   { <<mapper_ret.lsof.pid, mapper_ret.lsof.name>>, NoProcess }

(* C14: a find_process_by_port call refreshes the snapshot exactly when it
   is the REFRESH_INTERVAL-th call since the last such call, clear_cache or
   construction, or when it finds the cache empty; the snapshot is then
   what psutil gave at that call, and on every other call it is left as it
   was. *)
C14_RefreshExactlyWhenDue ==
    mapper_ret.op = "find_process_by_port" =>
      /\ mapper_ret.refreshed
           <=> (mapper_ret.kth \/ mapper_ret.before.connection_cache = <<>>)
      /\ mapper_ret.refreshed
           => mapper.connection_cache
                = (IF mapper_ret.os.kind = "table"
                     THEN RefreshFrom(mapper_ret.os.table, <<>>) ELSE <<>>)
      /\ ~mapper_ret.refreshed
           => mapper.connection_cache = mapper_ret.before.connection_cache

\* A call that was the REFRESH_INTERVAL-th found a snapshot in the cache
\* and replaced it by another one.
C14_Witness ==
    /\ mapper_ret.op = "find_process_by_port"
    /\ mapper_ret.kth
    /\ mapper_ret.refreshed
    /\ mapper_ret.before.connection_cache # <<>>
    /\ mapper.connection_cache # <<>>
    /\ mapper.connection_cache # mapper_ret.before.connection_cache

----------------------------------------------------------------------------
(* Enrichment alone: _enrich_packet called on packets to local and to
   routable destinations, against any answer of psutil, lsof and the DNS *)

\* Destinations on both sides of every prefix of is_local_ip.
EnrichDestinations ==
    { LanPeer, <<10, 0, 0, 7>>, <<127, 0, 0, 1>>, <<169, 254, 1, 1>>,
      <<172, 16, 0, 1>>, <<172, 31, 9, 9>>,
      Docker, StreamHost }

\* The second packet has source port 0: the mapper is not asked.
EnrichPackets ==
    { MakePacket(1, Template(LanHost, 50000, d, 443, 100)) : d \in EnrichDestinations }
      \cup { MakePacket(2, Template(LanHost, 0, d, 443, 100)) : d \in {LanPeer, StreamHost} }

enrichOthers == <<snifferVars, aggVars, storeVars, histVars>>

\* One call of _enrich_packet (monitor.py:89-130); worker_pkt is the dict
\* it returns, or the packet when the call raised.
EnrichCall ==
    /\ \E pkt \in EnrichPackets, os \in OsOutcomes, lsof \in LsofOutcomes,
          lookup \in DnsOutcomes :
         LET e == enrich_packet(pkt, mapper, dns_cache, os, lsof, lookup) IN
         /\ mapper' = e.mapper
         /\ dns_cache' = e.dns_cache
         /\ worker_pkt' = e.record
         /\ dns_ret' = [NoDnsCall EXCEPT !.op = "enrich_packet",
                                         !.ip = pkt.dest_ip,
                                         !.kind = lookup.kind,
                                         !.arg = lookup.name,
                                         !.looked_up = e.looked_up,
                                         !.raised = e.raised,
                                         !.calls = e.resolver_calls,
                                         !.before = dns_cache]
    /\ UNCHANGED <<mapper_ret, mon_is_running, mon_pc, worker_pc, batch_buffer>>
    /\ UNCHANGED enrichOthers

NextEnrich == EnrichCall

SpecEnrich == Init /\ [][NextEnrich]_vars

\* The prefixes of the private, loopback and link-local IPv4 ranges.
IsLocalDestination(ip) ==
    \E prefix \in { <<127>>, <<10>>, <<192, 168>>, <<169, 254>> }
                     \cup { <<172, n>> : n \in 16..31 } :
      \A i \in 1..Len(prefix) : ip[i] = prefix[i]

(* C15: _enrich_packet spends no reverse lookup on a local destination:
   for a packet whose destination is local it calls neither resolve_ip nor
   resolve_and_categorize and the record it returns has dest_hostname
   'Local Network' and category 'Local'; for any other destination the
   hostname and category of the record are those resolve_and_categorize
   gives for it. *)
C15_LocalNeverResolved ==
    dns_ret.op = "enrich_packet" =>
      IF IsLocalDestination(dns_ret.ip)
        THEN /\ dns_ret.calls = 0
             /\ ~dns_ret.looked_up
             /\ dns_cache = dns_ret.before
             /\ ~dns_ret.raised
             /\ worker_pkt.dest_hostname = LocalNetworkName
             /\ worker_pkt.category = "Local"
        ELSE LET r == resolve_and_categorize(dns_ret.before, dns_ret.ip,
                         [kind |-> dns_ret.kind, name |-> dns_ret.arg])
             IN /\ ~dns_ret.raised
                /\ dns_ret.calls = 1
                /\ worker_pkt.dest_hostname = r.hostname
                /\ worker_pkt.category = r.category
                /\ dns_cache = r.cache

----------------------------------------------------------------------------
(* The resolver alone: resolve_ip, resolve_and_categorize and clear_cache
   called with any routable IP, against any answer of the DNS *)

HuluName == <<"h", "u", "l", "u", ".", "t", "v">>   \* 'hulu.tv'

ResolverIps == { StreamHost, PublicHost, Docker, <<1, 1, 1, 1>> }

\* What socket.gethostbyaddr may do (dns_resolver.py:38-47): return a
\* hostname, raise socket.herror or socket.gaierror, raise socket.timeout,
\* or raise anything else.
ResolverLookups ==
    { [kind |-> "host", name |-> HuluName],
      [kind |-> "herror", name |-> NoneHost],
      [kind |-> "timeout", name |-> NoneHost],
      [kind |-> "error", name |-> NoneHost] }

resolverOthers == <<snifferVars, aggVars, storeVars, monVars, histVars>>

\* The IPs used so far, each once, the one just used last.
ResolverUsed(ip) == Append(SelectSeq(dns_ret.uses, LAMBDA u : u # ip), ip)

\* One call of resolve_ip (dns_resolver.py:23-47).
ResolverResolve ==
    /\ \E ip \in ResolverIps, lookup \in ResolverLookups :
         LET r == resolve_ip(dns_cache, ip, lookup) IN
         /\ dns_cache' = r.cache
         /\ dns_ret' = [op |-> "resolve_ip", ip |-> ip, kind |-> lookup.kind,
                        arg |-> lookup.name, hostname |-> r.result,
                        category |-> "Other", looked_up |-> r.looked_up,
                        raised |-> r.raised, calls |-> 1, before |-> dns_cache,
                        uses |-> ResolverUsed(ip),
                        prev_op |-> dns_ret.op, prev_ip |-> dns_ret.ip,
                        prev_hostname |-> dns_ret.hostname]
    /\ UNCHANGED <<mapper, mapper_ret>>
    /\ UNCHANGED resolverOthers

\* One call of resolve_and_categorize (dns_resolver.py:75-87).
ResolverResolveAndCategorize ==
    /\ \E ip \in ResolverIps, lookup \in ResolverLookups :
         LET r == resolve_and_categorize(dns_cache, ip, lookup) IN
         /\ dns_cache' = r.cache
         /\ dns_ret' = [op |-> "resolve_and_categorize", ip |-> ip,
                        kind |-> lookup.kind, arg |-> lookup.name,
                        hostname |-> r.hostname, category |-> r.category,
                        looked_up |-> r.looked_up, raised |-> r.raised,
                        calls |-> 1, before |-> dns_cache,
                        uses |-> ResolverUsed(ip),
                        prev_op |-> dns_ret.op, prev_ip |-> dns_ret.ip,
                        prev_hostname |-> dns_ret.hostname]
    /\ UNCHANGED <<mapper, mapper_ret>>
    /\ UNCHANGED resolverOthers

\* dns_resolver.py:104-106
ResolverClear ==
    /\ dns_cache' = dns_clear_cache(dns_cache)
    /\ dns_ret' = [NoDnsCall EXCEPT !.op = "clear_cache", !.before = dns_cache]
    /\ UNCHANGED <<mapper, mapper_ret>>
    /\ UNCHANGED resolverOthers

NextResolver ==
    \/ ResolverResolve \/ ResolverResolveAndCategorize \/ ResolverClear

SpecResolver == Init /\ [][NextResolver]_vars

ResolveOps == {"resolve_ip", "resolve_and_categorize"}

(* C16: resolve_ip propagates no failure of the reverse lookup: whether
   gethostbyaddr returns a hostname, times out, raises a resolution error
   or anything else, the call returns, with the hostname or with None; and
   resolve_and_categorize returns (None, "Other") for an IP that resolves
   to None. *)
C16_NeverPropagates ==
    dns_ret.op \in ResolveOps =>
      /\ ~dns_ret.raised
      /\ dns_ret.looked_up
           => dns_ret.hostname = (IF dns_ret.kind = "host" THEN dns_ret.arg
                                  ELSE NoneHost)
      /\ (dns_ret.op = "resolve_and_categorize" /\ dns_ret.hostname = NoneHost)
           => dns_ret.category = "Other"

\* resolve_and_categorize on an IP whose lookup raised an unexpected
\* exception returned (None, "Other").
C16_Witness ==
    /\ dns_ret.op = "resolve_and_categorize"
    /\ dns_ret.kind = "error"
    /\ dns_ret.looked_up
    /\ ~dns_ret.raised
    /\ dns_ret.hostname = NoneHost
    /\ dns_ret.category = "Other"

(* C17: when the same IP is resolved twice in succession, the second call
   issues no lookup (it is a cache hit) and returns what the first call
   returned. *)
C17_SecondCallIsHit ==
    (/\ dns_ret.op \in ResolveOps
     /\ dns_ret.prev_op \in ResolveOps
     /\ dns_ret.prev_ip = dns_ret.ip)
      => /\ ~dns_ret.looked_up
         /\ dns_ret.hostname = dns_ret.prev_hostname

\* The second of two calls on one IP, the first of which had failed: the
\* failure is answered from the cache although the DNS would now answer.
C17_Witness ==
    /\ dns_ret.op \in ResolveOps
    /\ dns_ret.prev_op \in ResolveOps
    /\ dns_ret.prev_ip = dns_ret.ip
    /\ dns_ret.kind = "host"
    /\ dns_ret.hostname = NoneHost
    /\ ~dns_ret.looked_up

\* The IPs of the cache, least recently used first.
CachedIps(cache) == [i \in 1..Len(cache) |-> cache[i][1]]

(* C18: the resolve_ip cache never holds more than MAX_CACHED_DNS entries
   and evicts the least recently used one: it holds exactly the
   MAX_CACHED_DNS most recently used distinct IPs (all of them while there
   are fewer), and a call issues a lookup exactly when its IP is not among
   them. *)
C18_BoundedLru ==
    /\ get_cache_info(dns_cache).size <= get_cache_info(dns_cache).maxsize
    /\ CachedIps(dns_cache) = LastN(dns_ret.uses, MAX_CACHED_DNS)
    /\ dns_ret.op \in ResolveOps
         => (dns_ret.looked_up
               <=> \A i \in 1..Len(dns_ret.before) : dns_ret.before[i][1] # dns_ret.ip)

\* A new IP entered the full cache: the least recently used entry is gone
\* and the entry the previous call used is kept.
C18_Witness ==
    /\ dns_ret.op \in ResolveOps
    /\ dns_ret.looked_up
    /\ Len(dns_ret.before) = MAX_CACHED_DNS
    /\ Len(dns_cache) = MAX_CACHED_DNS
    /\ dns_ret.before[1][1] \notin { dns_cache[i][1] : i \in 1..Len(dns_cache) }
    /\ dns_ret.prev_ip = dns_ret.before[Len(dns_ret.before)][1]
    /\ dns_ret.prev_op \in ResolveOps

----------------------------------------------------------------------------
(* categorize_domain alone, on hostnames put together from a prefix, a
   name and a suffix, in mixed case, and on None and the empty string *)

CategorizePrefixes ==
    { <<>>,
      <<"w", "w", "w", ".">>,
      <<"c", "d", "n", "-">>,
      <<"S", "3", ".">> }

CategorizeNames ==
    { <<"t", "w", "i", "t", "c", "h">>,
      <<"a", "m", "a", "z", "o", "n", "a", "w", "s">>,
      <<"a", "m", "a", "z", "o", "n">>,
      <<"Y", "o", "u", "T", "u", "b", "e">>,
      <<"N", "E", "T", "F", "L", "I", "X">>,
      <<"e", "x", "a", "m", "p", "l", "e">>,
      <<"S", "t", "e", "a", "m", "P", "o", "w", "e", "r", "e", "d">>,
      <<"a", "p", "p", "l", "e">>,
      <<"a", "w", "s">>,
      <<"x", "b", "o", "x", "l", "i", "v", "e">>,
      <<"T", "e", "a", "m", "s">>,
      <<"m", "e", "e", "t", ".", "g", "o", "o", "g", "l", "e">>,
      <<"G", "i", "t", "H", "u", "b">>,
      <<"f", "b">> }

CategorizeSuffixes ==
    { <<".", "c", "o", "m">>,
      <<".", "T", "V">> }

CategorizeInputs ==
    { p \o n \o x : p \in CategorizePrefixes, n \in CategorizeNames,
                    x \in CategorizeSuffixes }
      \cup { NoneHost, <<>> }

\* One call of categorize_domain (dns_resolver.py:49-73).
CategorizeCall ==
    /\ \E hostname \in CategorizeInputs :
         dns_ret' = [NoDnsCall EXCEPT !.op = "categorize_domain",
                                      !.arg = hostname,
                                      !.category = categorize_domain(hostname)]
    /\ UNCHANGED <<mapper, dns_cache, mapper_ret>>
    /\ UNCHANGED resolverOthers

NextCategorize == CategorizeCall

SpecCategorize == Init /\ [][NextCategorize]_vars

\* A character with its case folded away.
FoldCase(c) ==
    IF \E j \in 1..26 : LowerCase[j] = c
      THEN UpperCase[CHOOSE j \in 1..26 : LowerCase[j] = c]
      ELSE c

\* k occurs in h at some offset, case ignored.
OccursIgnoringCase(k, h) ==
    \E off \in 0..(Len(h) - Len(k)) :
      \A j \in 1..Len(k) : FoldCase(h[off + j]) = FoldCase(k[j])

\* The places in the table of the categories with a keyword occurring in h.
MatchingCategories(h) ==
    { i \in 1..Len(CATEGORY_KEYWORDS) :
        \E k \in 1..Len(CATEGORY_KEYWORDS[i][2]) :
          OccursIgnoringCase(CATEGORY_KEYWORDS[i][2][k], h) }

(* C19: categorize_domain returns the first category, in the order of
   CATEGORY_KEYWORDS, one of whose keywords occurs in the hostname with
   case ignored, and "Other" for None, for the empty hostname and for a
   hostname in which no keyword occurs. *)
C19_FirstCategoryInTableOrder ==
    dns_ret.op = "categorize_domain" =>
      LET h == dns_ret.arg
          m == MatchingCategories(h)
      IN dns_ret.category =
           (IF h = NoneHost \/ h = <<>> \/ m = {} THEN "Other"
            ELSE CATEGORY_KEYWORDS[CHOOSE i \in m : \A j \in m : i <= j][1])

\* A hostname in capitals with 'twitch' in it, a keyword of Streaming and
\* of Gaming, was put in Streaming.
C19_Witness ==
    /\ dns_ret.op = "categorize_domain"
    /\ dns_ret.category = "Streaming"
    /\ Cardinality(MatchingCategories(dns_ret.arg)) >= 2
    /\ \E i \in 1..Len(dns_ret.arg), j \in 1..26 : dns_ret.arg[i] = UpperCase[j]

----------------------------------------------------------------------------
(* The capture queue between its two threads: the handler pushing, a
   consumer popping with get_packet and get_packet_nowait *)

queueOthers == <<aggVars, mapperVars, storeVars, monVars>>

\* A mutant of QueuePop: the newest queued packet is returned.
QueuePop_TakesNewest ==
    /\ IF packet_queue # <<>>
         THEN /\ packet_queue' = Front(packet_queue)
              /\ popped' = Append(popped,
                     [timestamp   |-> packet_queue[Len(packet_queue)].timestamp,
                      source_ip   |-> packet_queue[Len(packet_queue)].source_ip,
                      packet_size |-> packet_queue[Len(packet_queue)].packet_size,
                      running     |-> mon_is_running])
         ELSE UNCHANGED <<packet_queue, popped>>
    /\ UNCHANGED <<sniffer_is_running, sniffer_alive, sniffer_pc, handling,
                   captured, pushed, discarded, evictions>>
    /\ UNCHANGED <<raised, appended, failed, join_timed_out, left_in_buffer, life>>
    /\ UNCHANGED queueOthers

\* queue.Queue.get: the packet at the head of the queue is removed and
\* returned; on an empty queue queue.Empty is raised, the caller returns
\* None and nothing changes.
QueuePop ==
    /\ IF packet_queue # <<>>
         THEN /\ packet_queue' = Tail(packet_queue)
              /\ popped' = Append(popped,
                     [timestamp   |-> Head(packet_queue).timestamp,
                      source_ip   |-> Head(packet_queue).source_ip,
                      packet_size |-> Head(packet_queue).packet_size,
                      running     |-> mon_is_running])
         ELSE UNCHANGED <<packet_queue, popped>>
    /\ UNCHANGED <<sniffer_is_running, sniffer_alive, sniffer_pc, handling,
                   captured, pushed, discarded, evictions>>
    /\ UNCHANGED <<raised, appended, failed, join_timed_out, left_in_buffer, life>>
    /\ UNCHANGED queueOthers

\* PacketSniffer.get_packet (packet_sniffer.py:166-179): a packet that
\* arrives within the timeout is returned as if the call had come later.
QueueGetPacket == QueuePop

\* PacketSniffer.get_packet_nowait (packet_sniffer.py:181-191)
QueueGetPacketNowait == QueuePop

NextQueue ==
    \/ PushCapture \/ SnifferGet \/ SnifferReput
    \/ QueueGetPacket \/ QueueGetPacketNowait

SpecQueue == InitPush /\ [][NextQueue]_vars

PoppedStamps == [i \in 1..Len(popped) |-> popped[i].timestamp]

\* a can be had from b by leaving elements out.
RECURSIVE IsSubsequence(_, _)
IsSubsequence(a, b) ==
    IF a = <<>> THEN TRUE
    ELSE IF b = <<>> THEN FALSE
    ELSE IF Head(a) = Head(b) THEN IsSubsequence(Tail(a), Tail(b))
    ELSE IsSubsequence(a, Tail(b))

(* C20: whatever the interleaving of the handler's pushes, with their
   evictions, and the consumer's pops, the packets the pops returned are,
   in the order returned, a subsequence of the packets pushed in push
   order, and no packet is returned twice. *)
C20_FifoDelivery ==
    /\ IsSubsequence(PoppedStamps, pushed)
    /\ \A i, j \in 1..Len(popped) :
         i # j => popped[i].timestamp # popped[j].timestamp

\* Two packets returned with a packet between them that a push evicted.
C20_Witness ==
    /\ Len(popped) >= 2
    /\ \E i \in 1..(Len(popped) - 1), e \in evictions :
         /\ popped[i].timestamp < e[1]
         /\ e[1] < popped[i + 1].timestamp

----------------------------------------------------------------------------
(* The lifecycle of one NetworkMonitor: start() and stop() called by one
   caller in any order, with the capture thread and the worker *)

MaxCalls == 3

LifePackets == 1

lifeOthers == <<snifferVars, aggVars, mapperVars, storeVars, monVars>>

lifeHistory == <<popped, raised, appended, failed, join_timed_out,
                 left_in_buffer>>

\* start() called without root rights (monitor.py:134-148): sys.exit(1)
\* ends the process before is_running is set.
MonitorStartNotRoot ==
    /\ mon_pc = "new"
    /\ ~mon_is_running
    /\ mon_pc' = "exited"
    /\ life' = [life EXCEPT !.calls = @ + 1,
                            !.call = [op |-> "start", was_running |-> FALSE]]
    /\ UNCHANGED <<mon_is_running, worker_pc, worker_pkt, batch_buffer>>
    /\ UNCHANGED <<snifferVars, aggVars, mapperVars, storeVars, lifeHistory>>

\* A mutant of MonitorStartWhileRunning: the call does not test is_running
\* and starts a capture thread and a worker again.
MonitorStartWhileRunning_Relaunches ==
    /\ mon_pc = "running"
    /\ mon_is_running
    /\ life.calls < MaxCalls
    /\ life' = [life EXCEPT !.calls = @ + 1,
                            !.call = [op |-> "start", was_running |-> TRUE],
                            !.sniffers = @ + 1,
                            !.workers = @ + 1]
    /\ UNCHANGED <<lifeOthers, lifeHistory>>

\* start() while is_running is set (monitor.py:134-136): a message, return.
MonitorStartWhileRunning ==
    /\ mon_pc = "running"
    /\ mon_is_running
    /\ life.calls < MaxCalls
    /\ life' = [life EXCEPT !.calls = @ + 1,
                            !.call = [op |-> "start", was_running |-> TRUE],
                            !.returned = @ \cup {"start"}]
    /\ UNCHANGED <<lifeOthers, lifeHistory>>

\* stop() while is_running is clear (monitor.py:177-178): return.
MonitorStopWhileStopped ==
    /\ mon_pc \in {"new", "stopped"}
    /\ ~mon_is_running
    /\ life.calls < MaxCalls
    /\ life' = [life EXCEPT !.calls = @ + 1,
                            !.call = [op |-> "stop", was_running |-> FALSE],
                            !.returned = @ \cup {"stop"}]
    /\ UNCHANGED <<lifeOthers, lifeHistory>>

\* PacketSniffer._sniffer_worker (packet_sniffer.py:112-127): sniff() raises
\* PermissionError or another exception; the handler of either prints and
\* clears the sniffer's own is_running, and the capture thread ends.
SnifferFail ==
    /\ sniffer_alive
    /\ sniffer_is_running
    /\ sniffer_pc = "idle"
    /\ sniffer_is_running' = FALSE
    /\ sniffer_alive' = FALSE
    /\ sniffer_pc' = "failed"
    /\ UNCHANGED <<packet_queue, handling, captured, pushed, discarded,
                   evictions>>
    /\ UNCHANGED snifferOthers

LifeCapture == SnifferPut(LifePackets, Wire)

\* The steps of packet_processor_worker (monitor.py:47-87).
WorkerStep ==
    \/ WorkerCheck \/ WorkerGet \/ WorkerEnrichAny \/ WorkerAggregate
    \/ WorkerAppend \/ WorkerFlush

NextLife ==
    \/ MonitorStartNotRoot \/ MonitorStartSniffer \/ MonitorStartWorker
    \/ MonitorStartWhileRunning
    \/ MonitorStop \/ MonitorJoined \/ MonitorJoinTimeout
    \/ MonitorStopWhileStopped
    \/ LifeCapture \/ SnifferFail
    \/ WorkerCheck \/ WorkerGet \/ WorkerEnrichAny \/ WorkerAggregate
    \/ WorkerAppend \/ WorkerFlush

SpecLife == Init /\ [][NextLife]_vars

\* The step is the beginning of a start() call, of a stop() call.
StartCalled == life'.calls = life.calls + 1 /\ life'.call.op = "start"

StopCalled == life'.calls = life.calls + 1 /\ life'.call.op = "stop"

(* C21: the monitor is stopped or running as is_running says.  The flag
   changes only from clear to set in a step of start() and from set to clear
   in a step of stop(); a start() called while it is set and a stop() called
   while it is clear start no capture thread and no worker and leave the
   monitor, the sniffer, the queue, the aggregator and the store as they
   were. *)
C21_Lifecycle ==
    [][ /\ mon_is_running' # mon_is_running =>
             \/ StartCalled /\ ~mon_is_running /\ mon_is_running'
             \/ StopCalled /\ mon_is_running /\ ~mon_is_running'
        /\ (StartCalled /\ mon_is_running) \/ (StopCalled /\ ~mon_is_running) =>
             /\ life'.sniffers = life.sniffers
             /\ life'.workers = life.workers
             /\ UNCHANGED <<lifeOthers, lifeHistory>>
      ]_vars

\* One start() and one stop() changed the state, one start() found the
\* monitor running and one stop() found it stopped; one capture thread and
\* one worker were started in all.
C21_Witness ==
    /\ life.returned = {"start", "stop"}
    /\ mon_pc = "stopped"
    /\ ~mon_is_running
    /\ life.sniffers = 1
    /\ life.workers = 1

\* The threads of a live process keep being scheduled, and every call that
\* blocks returns: get_packet after its timeout of 1 second (monitor.py:57),
\* sleep(2) in start() (monitor.py:158), join after its timeout of 5
\* seconds (monitor.py:193).  Nothing obliges a caller to call start() or
\* stop(), nor the interface to carry packets.  The calls are those that
\* change the state: one start() and one stop(), as run() makes them
\* (monitor.py:202-221).
NextRun ==
    \/ MonitorStartNotRoot \/ MonitorStartSniffer \/ MonitorStartWorker
    \/ MonitorStop \/ MonitorJoined \/ MonitorJoinTimeout
    \/ LifeCapture \/ SnifferFail
    \/ WorkerCheck \/ WorkerGet \/ WorkerEnrichAny \/ WorkerAggregate
    \/ WorkerAppend \/ WorkerFlush

SpecRun ==
    /\ Init
    /\ [][NextRun]_vars
    /\ WF_vars(WorkerStep)
    /\ WF_vars(MonitorStartWorker)
    /\ WF_vars(MonitorJoined \/ MonitorJoinTimeout)

WorkerInLoop == worker_pc \in {"check", "get", "enrich", "aggregate", "append"}

WorkerLeftLoop == worker_pc \in {"flush", "done", "dead"}

(* C22: whenever is_running is clear while the worker is inside its loop,
   the worker later stands after the loop, having left it through the test
   of the flag; and every stop() that has cleared the flag returns, whether
   or not the worker has ended by then. *)
C22_CooperativeCancellation ==
    /\ (~mon_is_running /\ WorkerInLoop) ~> WorkerLeftLoop
    /\ (mon_pc = "joining") ~> (mon_pc = "stopped")

\* stop() returned on the timeout of its join while the worker was still in
\* its loop, and the worker has since left the loop and ended by itself.
C22_Witness ==
    /\ join_timed_out
    /\ mon_pc = "stopped"
    /\ worker_pc = "done"

(* C29: once the capture thread has failed to open the capture (sniff()
   raised PermissionError or another exception after start()), the monitor
   leaves the running state: is_running of the monitor is cleared without
   anybody calling stop(). *)
C29_CaptureFailureHalts ==
    (sniffer_pc = "failed" /\ mon_is_running) ~> ~mon_is_running

----------------------------------------------------------------------------
(* Batch flushing in the loop of the worker *)

\* The timestamps of the rows the step has added to the store, in id order.
WrittenByStep ==
    [i \in 1..(Len(connections') - Len(connections)) |->
        connections'[Len(connections) + i].data.timestamp]

(* C23: at the append of every iteration whose buffer reaches
   BATCH_INSERT_SIZE the worker calls insert_batch with the whole buffer
   and, unless the store refuses the batch, the buffer is empty when the
   iteration ends.  As long as no store write has failed, the buffer holds
   fewer than BATCH_INSERT_SIZE records at the end of every iteration and a
   flush of the loop writes exactly BATCH_INSERT_SIZE records, those of the
   buffer in their order. *)
C23_BatchFlushing ==
    [][ worker_pc = "append" /\ worker_pc' = "check" =>
          LET stamps == [i \in 1..Len(batch_buffer) |-> batch_buffer[i].timestamp]
              full == Append(stamps, worker_pkt.timestamp)
          IN
          /\ Len(full) >= BATCH_INSERT_SIZE =>
               \/ batch_buffer' = <<>> /\ WrittenByStep = full
               \/ worker_pkt.timestamp \in failed' /\ WrittenByStep = <<>>
          /\ failed' = {} =>
               /\ Len(batch_buffer') < BATCH_INSERT_SIZE
               /\ Len(WrittenByStep) \in {0, BATCH_INSERT_SIZE}
               /\ WrittenByStep = <<>> => Len(batch_buffer') = Len(batch_buffer) + 1
      ]_vars

\* A full buffer has been flushed by the loop: the store holds one batch,
\* the buffer is empty and the worker is at the end of the iteration.
C23_Witness ==
    /\ worker_pc = "check"
    /\ mon_is_running
    /\ failed = {}
    /\ Len(connections) = BATCH_INSERT_SIZE
    /\ batch_buffer = <<>>

----------------------------------------------------------------------------
(* The counters of the aggregator, step by step inside add_packet and
   reset_stats *)

\* The private IPv4 ranges 10/8, 172.16/12 and 192.168/16.
InPrivateRange(ip) ==
    \/ ip[1] = 10
    \/ ip[1] = 172 /\ ip[2] \in 16..31
    \/ ip[1] = 192 /\ ip[2] = 168

(* C24: add_packet adds the size of the record to exactly one of
   total_upload and total_download: to total_upload if and only if the
   source address lies in a private range or is already in local_ips, to
   total_download otherwise. *)
C24_UploadIffPrivateSource ==
    [][ writer_pc = "direction" /\ writer_pc' = "rate" =>
          LET size == writer_pkt.packet_size
              up == agg'.total_upload - agg.total_upload
              down == agg'.total_download - agg.total_download
              local == \/ InPrivateRange(writer_pkt.source_ip)
                       \/ writer_pkt.source_ip \in agg.local_ips
          IN /\ (up = size /\ down = 0) \/ (up = 0 /\ down = size)
             /\ (up = size) <=> local
      ]_vars

\* Every key of dict d is a key of dict e, with a value at least as large.
DictGrows(d, e) ==
    \A k \in DictKeys(d) :
      /\ k \in DictKeys(e)
      /\ DictGet(e, k, 0) >= DictGet(d, k, 0)

(* C25: for records of non-negative size, no step other than the clearing
   of reset_stats removes a key of app_bandwidth, app_packet_count or
   category_bandwidth or lowers one of their values; reset_stats empties
   all three, inside one critical section: it holds the lock from
   its first statement to its last, and whenever the lock is free the
   three dicts are empty together or not at all and the two per-application
   dicts have the same keys. *)
C25_MonotonicBetweenResets ==
    [][ /\ reset_pc # "collections" =>
             /\ DictGrows(agg.app_bandwidth, agg'.app_bandwidth)
             /\ DictGrows(agg.app_packet_count, agg'.app_packet_count)
             /\ DictGrows(agg.category_bandwidth, agg'.category_bandwidth)
        /\ reset_pc = "collections" /\ reset_pc' # "collections" =>
             /\ agg'.app_bandwidth = <<>>
             /\ agg'.app_packet_count = <<>>
             /\ agg'.category_bandwidth = <<>>
        /\ reset_pc' # "idle" => agg_lock' = "reset"
        /\ agg_lock' = "free" =>
             /\ DictKeys(agg'.app_bandwidth) = DictKeys(agg'.app_packet_count)
             /\ (agg'.app_bandwidth = <<>>) <=> (agg'.category_bandwidth = <<>>)
      ]_vars

\* A reset has cleared the totals of earlier records, and two records of
\* one application and two categories have been added since.
C25_Witness ==
    /\ agg_lock = "free"
    /\ reset_found
    /\ last_mutation = "add"
    /\ records_since = 2
    /\ Len(agg.app_bandwidth) = 1
    /\ Len(agg.category_bandwidth) = 2
    /\ DictGet(agg.app_packet_count, "Spotify", 0) = 2

----------------------------------------------------------------------------
(* The aggregator call by call: add_packet, reset_stats and
   get_recent_packets, each one critical section under self.lock, over a
   clock long enough for both rings to overflow *)

RecordClock == 6

\* The records add_packet is called with here: an upload of 100 bytes and a
\* download of 200 bytes of two applications.
RecordInputs(n) ==
    { EnrichedRecord(MakePacket(n, Template(LanHost, 50001, LanPeer, 22, 100)),
                     "Unknown", NoPid, LocalNetworkName, "Local"),
      EnrichedRecord(MakePacket(n, Template(StreamHost, 443, LanHost, 50000, 200)),
                     "Spotify", 7, LocalNetworkName, "Local") }

\* DataAggregator.add_packet (data_aggregator.py:53-103) at the clock
\* reading `now`; writer_pkt keeps the record of the call.
RecordAdd ==
    /\ records_since < MaxRecords
    /\ \E p \in RecordInputs(records_since + 1) :
         LET r == add_packet(agg, p, now) IN
         /\ agg' = r.agg
         /\ rest' = r.agg
         /\ sampled' = SampledAfter(agg, r.agg, now)
         /\ writer_pkt' = p
         /\ bytes_since' = bytes_since + p.packet_size
    /\ records_since' = records_since + 1
    /\ last_mutation' = "add"
    /\ UNCHANGED <<agg_lock, writer_pc, reset_pc, now, snap, reset_found>>
    /\ UNCHANGED aggOthers

\* DataAggregator.reset_stats (data_aggregator.py:222-235).
RecordReset ==
    /\ agg' = reset_stats_counters(reset_stats_collections(agg), now)
    /\ rest' = agg'
    /\ sampled' = <<>>
    /\ writer_pkt' = NoPacket
    /\ records_since' = 0
    /\ bytes_since' = 0
    /\ last_mutation' = "reset"
    /\ reset_found' = (/\ agg.total_packets > 0
                       /\ agg.current_rate.num > 0
                       /\ agg.bandwidth_history # <<>>
                       /\ agg.total_download > 0)
    /\ UNCHANGED <<agg_lock, writer_pc, reset_pc, now, snap>>
    /\ UNCHANGED aggOthers

\* DataAggregator.get_recent_packets(limit) (data_aggregator.py:126-139)
\* for a limit up to one more than the ring can hold.
RecordRecent ==
    /\ \E limit \in 0..(MAX_RECENT_PACKETS + 1) :
         snap' = [method |-> "get_recent_packets",
                  torn |-> FALSE,
                  packets |-> agg.total_packets,
                  limit |-> limit,
                  value |-> get_recent_packets(agg, limit)]
    /\ UNCHANGED <<agg, agg_lock, writer_pc, writer_pkt, reset_pc, now, rest,
                   records_since, bytes_since, last_mutation, reset_found,
                   sampled>>
    /\ UNCHANGED aggOthers

\* time.time() moves on.
RecordTick ==
    /\ now < RecordClock
    /\ now' = now + 1
    /\ UNCHANGED <<agg, agg_lock, writer_pc, writer_pkt, reset_pc, snap, rest,
                   records_since, bytes_since, last_mutation, reset_found,
                   sampled>>
    /\ UNCHANGED aggOthers

NextRecord == RecordAdd \/ RecordReset \/ RecordTick

SpecRecord == InitAgg /\ [][NextRecord]_vars

\* The ring of recent packets and its reader, the clock standing still.
NextRecent == RecordAdd \/ RecordReset \/ RecordRecent

SpecRecent == InitAgg /\ [][NextRecent]_vars

\* The last item of a non-empty sequence.
Last(s) == s[Len(s)]

(* C26: add_packet appends a sample only when at least one second has
   passed since last_rate_calc, the time of the last sample; the rate of
   the sample is the accumulator, with the size of the record, over the
   time passed; after the call the accumulator is 0 and last_rate_calc is
   the timestamp of the sample.  Any two consecutive samples, of the
   history and of all those appended, are at least one second apart. *)
C26_RateSampling ==
    [][ records_since' = records_since + 1 =>
          /\ sampled' # sampled =>
               LET elapsed == now - agg.last_rate_calc
                   sample == Last(agg'.bandwidth_history)
               IN /\ elapsed >= TicksPerSecond
                  /\ sample.timestamp = now
                  /\ sample.rate.num = agg.bytes_since_last_calc
                                         + writer_pkt'.packet_size
                  /\ sample.rate.den = elapsed
                  /\ agg'.bytes_since_last_calc = 0
                  /\ agg'.last_rate_calc = sample.timestamp
          /\ sampled' = sampled =>
               agg'.bandwidth_history = agg.bandwidth_history
          /\ \A i \in 1..(Len(agg'.bandwidth_history) - 1) :
               agg'.bandwidth_history[i + 1].timestamp
                 - agg'.bandwidth_history[i].timestamp >= TicksPerSecond
          /\ \A i \in 1..(Len(sampled') - 1) :
               sampled'[i + 1] - sampled'[i] >= TicksPerSecond
      ]_vars

\* Two samples one second apart, the second one of 300 bytes in that
\* second.
C26_Witness ==
    /\ Len(agg.bandwidth_history) = 2
    /\ agg.bandwidth_history[2].timestamp - agg.bandwidth_history[1].timestamp
         = TicksPerSecond
    /\ agg.bandwidth_history[2].rate = Rate(300, TicksPerSecond)
    /\ agg.bytes_since_last_calc = 0
    /\ agg.last_rate_calc = now

\* The smaller of two numbers.
Min(a, b) == IF a <= b THEN a ELSE b

(* C27: recent_packets never holds more than MAX_RECENT_PACKETS records nor
   bandwidth_history more than its maxlen samples; recent_packets is the
   last records added since construction or the last reset, in the order
   of their addition, and bandwidth_history the last samples appended, in
   the order of their appending: a full ring has lost its oldest items
   only. *)
C27_RingsBoundedMostRecent ==
    LET ring == agg.recent_packets
        history == agg.bandwidth_history
    IN /\ Len(ring) = Min(records_since, MAX_RECENT_PACKETS)
       /\ \A i \in 1..Len(ring) :
            ring[i].timestamp = records_since - Len(ring) + i
       /\ Len(history) = Min(Len(sampled), HISTORY_MAXLEN)
       /\ \A i \in 1..Len(history) :
            history[i].timestamp = sampled[Len(sampled) - Len(history) + i]

\* Both rings have overflowed: more records and more samples than they hold
\* since construction, the first of each gone.
C27_Witness ==
    /\ records_since > MAX_RECENT_PACKETS
    /\ Len(sampled) > HISTORY_MAXLEN
    /\ Len(agg.recent_packets) = MAX_RECENT_PACKETS
    /\ Len(agg.bandwidth_history) = HISTORY_MAXLEN

(* C30: get_recent_packets(limit) returns the min(limit, size) most recent
   records of the ring, in the order of their addition, for every
   limit >= 0; it never returns more than limit records. *)
C30_RecentExactlyMin ==
    [][ snap' # snap /\ snap'.method = "get_recent_packets" =>
          LET ring == agg.recent_packets
              k == Min(snap'.limit, Len(ring))
          IN /\ Len(snap'.value) = k
             /\ Len(snap'.value) <= snap'.limit
             /\ \A i \in 1..k : snap'.value[i] = ring[Len(ring) - k + i]
      ]_vars

----------------------------------------------------------------------------
(* The store as a log: insert_connection, insert_batch and
   cleanup_old_data in any order while the clock advances; submitted holds
   the list of the latest insert call only *)

\* The inserts stop once this many ids were handed out.
MaxIds == 3

\* One INSERT and a commit (database.py:73-105): the row gets the next
\* AUTOINCREMENT id; a NOT NULL violation or a database that cannot be
\* opened raises before the commit and leaves the table as it was.
insert_connection(rows, last_id, data, available) ==
    IF available /\ SatisfiesNotNull(StoreRecord(data))
      THEN [connections |-> Append(rows, StoreRow(StoreRecord(data), last_id + 1)),
            sqlite_sequence |-> last_id + 1,
            raised |-> FALSE]
      ELSE [connections |-> rows, sqlite_sequence |-> last_id, raised |-> TRUE]

\* The batches handed to the store at one clock reading: up to MaxBatchLen
\* records stamped with it, all valid or the last one with a NULL protocol.
LogBatches(ts) ==
    UNION { { [i \in 1..n |-> RoundRecord(i, ts, valid \/ i < n)] :
                valid \in BOOLEAN } : n \in 0..MaxBatchLen }

\* database.py:107-147 as one call.
LogInsertBatch ==
    /\ store_pc = "idle"
    /\ sqlite_sequence < MaxIds
    /\ \E data_list \in LogBatches(now), available \in BOOLEAN :
         LET r == insert_batch(connections, sqlite_sequence, data_list, available) IN
         /\ connections' = r.connections
         /\ sqlite_sequence' = r.sqlite_sequence
         /\ submitted' = <<data_list>>
    /\ UNCHANGED <<store_pc, store_call, txn, store_ret>>
    /\ UNCHANGED storeOthers

\* database.py:73-105 as one call.
LogInsertOne ==
    /\ store_pc = "idle"
    /\ sqlite_sequence < MaxIds
    /\ \E valid \in BOOLEAN, available \in BOOLEAN :
         LET data == RoundRecord(1, now, valid)
             r == insert_connection(connections, sqlite_sequence, data, available) IN
         /\ connections' = r.connections
         /\ sqlite_sequence' = r.sqlite_sequence
         /\ submitted' = <<<<data>>>>
    /\ UNCHANGED <<store_pc, store_call, txn, store_ret>>
    /\ UNCHANGED storeOthers

NextLog ==
    \/ LogInsertBatch \/ LogInsertOne \/ RoundCleanup \/ Tick

SpecLog == Init /\ [][NextLog]_vars

RowIds(rows) == { rows[i].id : i \in 1..Len(rows) }

\* The rows of the table after a step that were not in it before.
Written(old, new) == SelectSeq(new, LAMBDA r : r.id \notin RowIds(old))

\* The rows of the table before a step that are still in it after.
Kept(old, new) == SelectSeq(old, LAMBDA r : r.id \in RowIds(new))

(* C28: the Store log is append-only with monotonic identifiers. The
   AUTOINCREMENT counter never decreases and no stored id exceeds it, so
   it bounds every id assigned so far; every written record gets an id
   above it, the records of one call get consecutive ids in the order of
   the submitted list, the rows already stored stay as they are and in
   front of the written ones, and a row leaves the table only in a
   cleanup_old_data call. *)
C28_AppendOnlyMonotonicIds ==
    /\ [](\A i \in 1..Len(connections) : connections[i].id <= sqlite_sequence)
    /\ [][LET old == connections
              new == connections'
              written == Written(old, new)
          IN /\ sqlite_sequence' >= sqlite_sequence
             /\ new = Kept(old, new) \o written
             /\ \A i \in 1..Len(written) :
                  written[i].id = sqlite_sequence + i
             /\ written # <<>> =>
                  /\ Len(submitted') = 1
                  /\ Kept(old, new) = old
                  /\ [i \in 1..Len(written) |-> written[i].data]
                       = [i \in 1..Len(written) |->
                            StoreRecord(submitted'[Len(submitted')][i])]
                  /\ Len(written) = Len(submitted'[Len(submitted')])
             /\ Kept(old, new) # old =>
                  /\ store_ret'.op = "cleanup_old_data"
                  /\ store_ret'.before = old
                  /\ store_ret'.after = new]_vars

\* A sweep emptied a table of two or more rows, and the two rows written
\* since carry the ids after the highest one removed, in order.
C28_Witness ==
    /\ store_ret.op = "cleanup_old_data"
    /\ Len(store_ret.before) >= 2
    /\ store_ret.after = <<>>
    /\ Len(connections) = 2
    /\ connections[1].id = store_ret.before[Len(store_ret.before)].id + 1
    /\ connections[2].id = connections[1].id + 1
    /\ connections[1].data.packet_size = 100
    /\ connections[2].data.packet_size = 200

----------------------------------------------------------------------------
(* The two locality tests: _is_outgoing inside add_packet and reset_stats
   of the aggregator, and is_local_ip of the resolver, on the same
   addresses *)

Loopback == <<127, 0, 0, 1>>
LinkLocal == <<169, 254, 1, 1>>
TenHost == <<10, 0, 0, 1>>
ClassBHost == <<172, 16, 0, 1>>
CarrierHost == <<100, 64, 0, 1>>

\* Addresses inside and outside every prefix either test knows.
LocalityIps ==
    { LanHost, TenHost, ClassBHost, Docker, Loopback, LinkLocal, PublicHost,
      CarrierHost }

\* DataAggregator.add_packet (data_aggregator.py:53-103) on a record from
\* one of the addresses; snap keeps what _is_outgoing (line 74) answered
\* for its source and the local-IP cache it was asked on.
LocalityAdd ==
    /\ records_since < MaxRecords
    /\ \E src \in LocalityIps :
         LET p == EnrichedRecord(
                     MakePacket(records_since + 1,
                                Template(src, 50001, PublicHost, 443, 100)),
                     "Unknown", NoPid, NoneHost, "Other")
             r == add_packet(agg, p, now) IN
         /\ agg' = r.agg
         /\ rest' = r.agg
         /\ sampled' = SampledAfter(agg, r.agg, now)
         /\ writer_pkt' = p
         /\ bytes_since' = bytes_since + p.packet_size
         /\ snap' = [method |-> "_is_outgoing", torn |-> FALSE,
                     packets |-> agg.total_packets,
                     ip |-> src,
                     known |-> agg.local_ips,
                     value |-> is_outgoing(agg.local_ips, src).result]
    /\ records_since' = records_since + 1
    /\ last_mutation' = "add"
    /\ UNCHANGED <<agg_lock, writer_pc, reset_pc, now, reset_found>>
    /\ UNCHANGED aggOthers

\* DNSResolver.is_local_ip (dns_resolver.py:108-151) on one of the
\* addresses; dns_ret keeps the call.
LocalityIsLocal ==
    /\ \E ip \in LocalityIps :
         dns_ret' = [NoDnsCall EXCEPT !.op = "is_local_ip", !.ip = ip,
                                      !.kind = IF is_local_ip(ip) THEN "local"
                                                                  ELSE "remote"]
    /\ UNCHANGED <<mapper, dns_cache, mapper_ret>>
    /\ UNCHANGED <<snifferVars, aggVars, storeVars, monVars, histVars>>

NextLocality == LocalityAdd \/ RecordReset \/ LocalityIsLocal

SpecLocality == InitAgg /\ [][NextLocality]_vars

(* C38: the upload/download classification is history-independent. The
   local-IP cache only ever holds addresses that match the prefixes
   _is_outgoing tests, so _is_outgoing answers for a source what the
   prefix test alone answers, whatever records came before and whether or
   not reset_stats was called; reset_stats leaves the cache as it is. *)
C38_HistoryIndependent ==
    /\ [](\A ip \in agg.local_ips : HasLocalPrefix(ip))
    /\ [](snap.method = "_is_outgoing" =>
            snap.value = is_outgoing({}, snap.ip).result)
    /\ [][last_mutation' = "reset" => agg'.local_ips = agg.local_ips]_vars

\* A source was classified for the second time, after a reset_stats that
\* followed its first record, with the cache holding it, and a source
\* outside the prefixes was classified after the cache had entries.
C38_Witness ==
    /\ snap.method = "_is_outgoing"
    /\ snap.ip \in snap.known
    /\ snap.value
    /\ records_since = 1
    /\ agg.total_upload = 100
    /\ Cardinality(agg.local_ips) >= 2

(* C39: the two locality tests agree: for every IP address the aggregator
   treats it as local (outgoing) if and only if is_local_ip returns true
   for it. *)
C39_LocalityTestsAgree ==
    (/\ snap.method = "_is_outgoing"
     /\ dns_ret.op = "is_local_ip"
     /\ dns_ret.ip = snap.ip)
      => (snap.value <=> dns_ret.kind = "local")

----------------------------------------------------------------------------
(* Failed lookups in the resolve_ip cache (SpecResolver) *)

\* The cache holds None for ip.
CachedNone(cache, ip) == \E i \in 1..Len(cache) : cache[i] = <<ip, NoneHost>>

(* C37: negative results are cached. A lookup that fails leaves None for
   its IP in the cache; while that entry is there every resolve of the IP
   returns None without a lookup, even when the lookup would now succeed;
   and the entry goes only when clear_cache is called or when the lookup
   of another IP on the full cache evicts it. *)
C37_NegativeResultsCached ==
    /\ []((dns_ret.op \in ResolveOps /\ dns_ret.looked_up /\ dns_ret.kind # "host")
            => CachedNone(dns_cache, dns_ret.ip))
    /\ []((dns_ret.op \in ResolveOps /\ CachedNone(dns_ret.before, dns_ret.ip))
            => /\ ~dns_ret.looked_up
               /\ dns_ret.hostname = NoneHost
               /\ CachedNone(dns_cache, dns_ret.ip))
    /\ [][\A ip \in ResolverIps :
            (CachedNone(dns_cache, ip) /\ ~CachedNone(dns_cache', ip))
              => \/ dns_ret'.op = "clear_cache"
                 \/ /\ dns_ret'.op \in ResolveOps
                    /\ dns_ret'.ip # ip
                    /\ dns_ret'.looked_up
                    /\ Len(dns_cache) = MAX_CACHED_DNS
                    /\ dns_cache[1][1] = ip]_vars

\* A lookup failed, another IP was resolved, and the first IP was resolved
\* again when the DNS would have answered: None from the cache, no lookup.
C37_Witness ==
    /\ dns_ret.op = "resolve_ip"
    /\ dns_ret.prev_op \in ResolveOps
    /\ dns_ret.prev_ip # dns_ret.ip
    /\ CachedNone(dns_ret.before, dns_ret.ip)
    /\ dns_ret.kind = "host"
    /\ ~dns_ret.looked_up
    /\ dns_ret.hostname = NoneHost

----------------------------------------------------------------------------
(* add_packet and its divisions (SpecRecord) *)

(* C32: add_packet completes without raising for every record and every
   clock reading, the first record after reset_stats included: whenever a
   sample is due, the elapsed time since last_rate_calc and the elapsed
   time since start_time it divides by are not zero. *)
C32_RecordNeverRaises ==
    [][ records_since' = records_since + 1 =>
          /\ ~add_packet(agg, writer_pkt', now).raised
          /\ now - agg.last_rate_calc >= TicksPerSecond
               => /\ now - agg.last_rate_calc # 0
                  /\ now - agg.start_time # 0
      ]_vars

----------------------------------------------------------------------------
(* start() again after stop(): one monitor started, stopped and started
   again, its worker writing batches that the store may refuse.  worker_pc
   follows the worker thread of the latest start(); a worker thread of the
   earlier start() that is still alive then is kept in life.outlived, the
   packet of its iteration in life.holding *)

RestartPackets == 3

RestartWire == { Template(LanHost, 50001, LanPeer, 22, 100) }

RestartOs == { [kind |-> "table",
                table |-> <<OsConn(50000, StreamHost, 443, 7, "Spotify Helper")>>] }

\* lsof knows no process for the port, or cannot be run (OSError).
RestartLsof ==
    { [kind |-> "empty", pid |-> NoPid, name |-> NoneStr],
      [kind |-> "oserror", pid |-> NoPid, name |-> NoneStr] }

RestartDns == { [kind |-> "herror", name |-> NoneHost] }

NotHolding == [pc |-> "none", pkt |-> NoPacket]

RestartCapture == SnifferPut(RestartPackets, RestartWire)

RestartEnrich == WorkerEnrich(RestartOs, RestartLsof, RestartDns)

\* start() on the stopped monitor (monitor.py:134-155): the flag is set
\* again and self.sniffer becomes a new PacketSniffer with a new, empty
\* queue and a new capture thread.
MonitorRestartSniffer ==
    /\ mon_pc = "stopped"
    /\ ~mon_is_running
    /\ life.calls < MaxCalls
    /\ mon_is_running' = TRUE
    /\ packet_queue' = <<>>
    /\ sniffer_is_running' = TRUE
    /\ sniffer_alive' = TRUE
    /\ sniffer_pc' = "idle"
    /\ handling' = NoPacket
    /\ mon_pc' = "sleeping"
    /\ life' = [life EXCEPT !.calls = @ + 1,
                            !.call = [op |-> "start", was_running |-> FALSE],
                            !.sniffers = @ + 1]
    /\ UNCHANGED <<captured, pushed, discarded, evictions>>
    /\ UNCHANGED <<worker_pc, worker_pkt, batch_buffer>>
    /\ UNCHANGED <<aggVars, mapperVars, storeVars, lifeHistory>>

\* The first start() only (monitor.py:158-167).
MonitorFirstWorker ==
    /\ life.workers = 0
    /\ MonitorStartWorker

\* monitor.py:158-167 in the second start(): a new worker thread is
\* created and started whatever became of the first, and
\* self.processor_thread is overwritten.  A first worker that has not
\* ended stays alive, at the place of its iteration where it stands.
MonitorRestartWorker ==
    /\ mon_pc = "sleeping"
    /\ life.workers >= 1
    /\ worker_pc' = "check"
    /\ worker_pkt' = NoPacket
    /\ mon_pc' = "running"
    /\ life' = IF WorkerEnded
                 THEN [life EXCEPT !.workers = @ + 1]
                 ELSE [life EXCEPT
                         !.workers = @ + 1,
                         !.outlived = @ + 1,
                         !.holding =
                            IF worker_pc \in {"enrich", "aggregate", "append"}
                              THEN [pc |-> worker_pc, pkt |-> worker_pkt]
                              ELSE NotHolding]
    /\ UNCHANGED <<mon_is_running, batch_buffer>>
    /\ UNCHANGED <<pipeOthers, mapperVars, storeVars, lifeHistory>>

\* The outlived worker reads is_running set at line 54 and pops the next
\* packet of self.sniffer, the new one (monitor.py:54-60).
OutlivedWorkerGet ==
    /\ life.outlived > 0
    /\ life.holding.pc = "none"
    /\ mon_is_running
    /\ packet_queue # <<>>
    /\ packet_queue' = Tail(packet_queue)
    /\ popped' = Append(popped,
           [timestamp   |-> Head(packet_queue).timestamp,
            source_ip   |-> Head(packet_queue).source_ip,
            packet_size |-> Head(packet_queue).packet_size,
            running     |-> mon_is_running])
    /\ life' = [life EXCEPT !.holding = [pc |-> "enrich", pkt |-> Head(packet_queue)]]
    /\ UNCHANGED <<sniffer_is_running, sniffer_alive, sniffer_pc, handling,
                   captured, pushed, discarded, evictions>>
    /\ UNCHANGED <<raised, appended, failed, join_timed_out, left_in_buffer>>
    /\ UNCHANGED <<aggVars, mapperVars, storeVars, monVars>>

\* The outlived worker enriches the packet it holds, if it has not yet,
\* and hands the record to add_packet (monitor.py:63-66); line 77 when
\* either raises.
OutlivedWorkerAggregate ==
    /\ life.outlived > 0
    /\ life.holding.pc \in {"enrich", "aggregate"}
    /\ agg_lock = "free"
    /\ \E os \in RestartOs, lsof \in RestartLsof, lookup \in RestartDns :
         LET h == life.holding
             e == IF h.pc = "enrich"
                    THEN enrich_packet(h.pkt, mapper, dns_cache, os, lsof, lookup)
                    ELSE [raised |-> FALSE, mapper |-> mapper,
                          dns_cache |-> dns_cache, record |-> h.pkt]
             r == add_packet(agg, e.record, now)
         IN
         /\ mapper' = e.mapper
         /\ dns_cache' = e.dns_cache
         /\ IF e.raised
              THEN /\ raised' = raised \cup {h.pkt.timestamp}
                   /\ life' = [life EXCEPT !.holding = NotHolding]
                   /\ UNCHANGED <<agg, rest, sampled, records_since,
                                  bytes_since, last_mutation>>
              ELSE /\ agg' = r.agg
                   /\ rest' = r.agg
                   /\ sampled' = SampledAfter(agg, r.agg, now)
                   /\ records_since' = records_since + 1
                   /\ bytes_since' = bytes_since + e.record.packet_size
                   /\ last_mutation' = "add"
                   /\ raised' = IF r.raised THEN raised \cup {h.pkt.timestamp}
                                            ELSE raised
                   /\ life' = [life EXCEPT
                                 !.handed = @ \cup {h.pkt.timestamp},
                                 !.holding = IF r.raised THEN NotHolding
                                             ELSE [pc |-> "append",
                                                   pkt |-> e.record]]
    /\ UNCHANGED <<agg_lock, writer_pc, writer_pkt, reset_pc, now, snap,
                   reset_found>>
    /\ UNCHANGED <<mapper_ret, dns_ret>>
    /\ UNCHANGED <<popped, appended, failed, join_timed_out, left_in_buffer>>
    /\ UNCHANGED <<snifferVars, storeVars, monVars>>

\* The outlived worker appends its record under batch_lock and flushes
\* the full buffer (monitor.py:69-75).
OutlivedWorkerAppend ==
    /\ life.outlived > 0
    /\ life.holding.pc = "append"
    /\ LET h == life.holding
           buffer == Append(batch_buffer, h.pkt) IN
       /\ IF Len(buffer) >= BATCH_INSERT_SIZE
            THEN \E available \in BOOLEAN :
                   LET r == insert_batch(connections, sqlite_sequence, buffer, available) IN
                   /\ connections' = r.connections
                   /\ sqlite_sequence' = r.sqlite_sequence
                   /\ batch_buffer' = IF r.raised THEN buffer ELSE <<>>
                   /\ failed' = IF r.raised THEN failed \cup Timestamps(buffer) ELSE failed
                   /\ raised' = IF r.raised THEN raised \cup {h.pkt.timestamp}
                                            ELSE raised
            ELSE /\ batch_buffer' = buffer
                 /\ UNCHANGED <<connections, sqlite_sequence, failed, raised>>
       /\ appended' = Append(appended, h.pkt.timestamp)
    /\ life' = [life EXCEPT !.holding = NotHolding]
    /\ UNCHANGED <<store_pc, store_call, txn, submitted, store_ret>>
    /\ UNCHANGED <<mon_is_running, mon_pc, worker_pc, worker_pkt>>
    /\ UNCHANGED <<popped, join_timed_out, left_in_buffer>>
    /\ UNCHANGED <<pipeOthers, mapperVars>>

\* The outlived worker reads is_running clear at line 54, flushes the
\* buffer (lines 81-85) and ends.
OutlivedWorkerLeaves ==
    /\ life.outlived > 0
    /\ life.holding.pc = "none"
    /\ ~mon_is_running
    /\ life' = [life EXCEPT !.outlived = @ - 1]
    /\ IF batch_buffer # <<>>
         THEN \E available \in BOOLEAN :
                LET r == insert_batch(connections, sqlite_sequence, batch_buffer, available) IN
                /\ connections' = r.connections
                /\ sqlite_sequence' = r.sqlite_sequence
                /\ batch_buffer' = IF r.raised THEN batch_buffer ELSE <<>>
                /\ failed' = IF r.raised THEN failed \cup Timestamps(batch_buffer)
                                         ELSE failed
         ELSE UNCHANGED <<connections, sqlite_sequence, batch_buffer, failed>>
    /\ UNCHANGED <<store_pc, store_call, txn, submitted, store_ret>>
    /\ UNCHANGED <<mon_is_running, mon_pc, worker_pc, worker_pkt>>
    /\ UNCHANGED <<popped, raised, appended, join_timed_out, left_in_buffer>>
    /\ UNCHANGED <<pipeOthers, mapperVars>>

NextRestart ==
    \/ MonitorStartSniffer \/ MonitorFirstWorker
    \/ MonitorStop \/ MonitorJoined \/ MonitorJoinTimeout
    \/ MonitorRestartSniffer \/ MonitorRestartWorker
    \/ OutlivedWorkerGet \/ OutlivedWorkerAggregate \/ OutlivedWorkerAppend
    \/ OutlivedWorkerLeaves
    \/ RestartCapture \/ SnifferGet \/ SnifferReput
    \/ WorkerCheck \/ WorkerGet \/ RestartEnrich \/ WorkerAggregate
    \/ WorkerAppend \/ WorkerFlush

SpecRestart == Init /\ [][NextRestart]_vars

\* The worker threads alive: the one worker_pc follows, if it has not
\* ended, and the outlived ones.
AliveWorkers ==
    (IF worker_pc \in {"none", "done", "dead", "killed"} THEN 0 ELSE 1)
      + life.outlived

(* C31: at most one enrichment worker is alive at any time across any
   sequence of start() and stop() calls, a start() after a stop() whose
   join timed out included. *)
C31_SingleWorker == AliveWorkers <= 1

(* C33: every enriched record is written to the store at most once, and
   every record in the store was handed to add_packet before it was
   written, also when a batch was refused and written again and in the
   shutdown flush: no two rows carry the same record, and a step writes
   only records that had been handed to add_packet before it. *)
C33_AtMostOnceAfterAggregation ==
    /\ [](\A i, j \in 1..Len(connections) :
            i # j => connections[i].data.timestamp # connections[j].data.timestamp)
    /\ [](StoredStamps \subseteq life.handed)
    /\ [][\A i \in 1..Len(WrittenByStep) : WrittenByStep[i] \in life.handed]_vars

\* A batch the store refused in the loop was written by the shutdown
\* flush, and stop() has returned.
C33_Witness ==
    /\ failed # {}
    /\ failed \subseteq StoredStamps
    /\ worker_pc = "done"
    /\ mon_pc = "stopped"
    /\ Cardinality(failed) = BATCH_INSERT_SIZE
    /\ Len(connections) = BATCH_INSERT_SIZE
    /\ batch_buffer = <<>>

(* C34: conservation on clean shutdown. If no join of stop() has timed
   out, no insert_batch was refused and no iteration raised, then once
   stop() has returned the batch buffer is empty and the store holds as
   many rows as packets were popped from the queue, which is also
   total_packets of the aggregator. *)
C34_CleanShutdownConserves ==
    (/\ mon_pc = "stopped"
     /\ ~join_timed_out
     /\ failed = {}
     /\ raised = {})
      => /\ batch_buffer = <<>>
         /\ Len(connections) = Len(popped)
         /\ Len(popped) = agg.total_packets

\* Two clean runs of one monitor: a full batch written by the loop, the
\* rest by a shutdown flush, all packets popped and stored.
C34_Witness ==
    /\ mon_pc = "stopped"
    /\ ~join_timed_out
    /\ failed = {}
    /\ raised = {}
    /\ life.workers = 2
    /\ Len(popped) = RestartPackets
    /\ Len(connections) = RestartPackets
    /\ agg.total_packets = RestartPackets

\* The place of a timestamp in the order of the pops.
PopIndex(ts) == CHOOSE i \in 1..Len(popped) : popped[i].timestamp = ts

(* C35: records reach the store in the order their packets were popped
   from the queue: of any two rows, the one whose packet was popped
   earlier has the smaller id, within a batch and across batches. *)
C35_StoredInPopOrder ==
    \A i, j \in 1..Len(connections) :
      PopIndex(connections[i].data.timestamp) < PopIndex(connections[j].data.timestamp)
        => connections[i].id < connections[j].id

----------------------------------------------------------------------------
(* The aggregator's lock between the worker, the main thread in run() and
   the stop() that the signal handler runs on the main thread.  agg_lock
   is "main" while the main thread is inside get_current_stats; mon_pc is
   "summary" while stop() is about to call get_summary *)

\* run() line 213: the main thread enters the critical section of
\* get_current_stats (data_aggregator.py:191).
RunStatusBegin ==
    /\ mon_pc = "running"
    /\ agg_lock = "free"
    /\ agg_lock' = "main"
    /\ UNCHANGED <<agg, writer_pc, writer_pkt, reset_pc, now, snap, rest,
                   records_since, bytes_since, last_mutation, reset_found,
                   sampled>>
    /\ UNCHANGED aggOthers

\* data_aggregator.py:192-204: the main thread, running its own frame,
\* builds the dictionary and leaves the `with` block.
RunStatusEnd ==
    /\ mon_pc = "running"
    /\ agg_lock = "main"
    /\ agg_lock' = "free"
    /\ snap' = [method |-> "get_current_stats", torn |-> FALSE,
                packets |-> agg.total_packets,
                value |-> get_current_stats(agg, now)]
    /\ UNCHANGED <<agg, writer_pc, writer_pkt, reset_pc, now, rest,
                   records_since, bytes_since, last_mutation, reset_found,
                   sampled>>
    /\ UNCHANGED aggOthers

\* monitor.py:191-193: processor_thread.join(timeout=5) returns, the
\* worker ended or not.
StopJoinReturns ==
    /\ mon_pc = "joining"
    /\ mon_pc' = "summary"
    /\ join_timed_out' = (join_timed_out \/ ~WorkerEnded)
    /\ left_in_buffer' = Timestamps(batch_buffer)
    /\ UNCHANGED <<mon_is_running, worker_pc, worker_pkt, batch_buffer>>
    /\ UNCHANGED <<popped, raised, appended, failed, life>>
    /\ UNCHANGED <<pipeOthers, mapperVars, storeVars>>

\* monitor.py:196-200: get_summary (data_aggregator.py:244) calls
\* get_current_stats, which takes self.lock; stop() returns.
StopSummary ==
    /\ mon_pc = "summary"
    /\ agg_lock = "free"
    /\ mon_pc' = "stopped"
    /\ snap' = [method |-> "get_summary", torn |-> FALSE,
                packets |-> agg.total_packets,
                value |-> get_current_stats(agg, now)]
    /\ UNCHANGED <<agg, agg_lock, writer_pc, writer_pkt, reset_pc, now, rest,
                   records_since, bytes_since, last_mutation, reset_found,
                   sampled>>
    /\ UNCHANGED <<mon_is_running, worker_pc, worker_pkt, batch_buffer>>
    /\ UNCHANGED <<snifferVars, mapperVars, storeVars, histVars>>

\* stop() is called from run()'s finally or, by signal_handler
\* (monitor.py:276-279), on the main thread wherever it stands.
NextLocks ==
    \/ MonitorStartSniffer \/ MonitorStartWorker
    \/ RunStatusBegin \/ RunStatusEnd
    \/ MonitorStop \/ StopJoinReturns \/ StopSummary
    \/ LifeCapture
    \/ WorkerStep

SpecLocks == Init /\ [][NextLocks]_vars

\* A thread is at the acquire of the aggregator's lock.
StopCallerWaits == mon_pc = "summary" /\ agg_lock # "free"
WorkerWaits == worker_pc = "aggregate" /\ agg_lock # "free"

\* The holder of the aggregator's lock can reach its release: the main
\* thread holds it and is running the frame that holds it.
HolderCanRelease == agg_lock = "main" /\ mon_pc = "running"

(* C36: the pipeline is deadlock-free: no thread, worker, stop caller or
   reader, ever waits forever for a lock: whenever a thread waits for the
   aggregator's lock, the thread that holds it can still release it. *)
C36_NoThreadWaitsForever ==
    (StopCallerWaits \/ WorkerWaits) => HolderCanRelease

====
